---------------------------- MODULE Spec2Model ----------------------------
(***************************************************************************)
(* Fortune's sweep of stales-geom-viewer (src/src/bin/voronoi): the event  *)
(* queue with lazy cancellation, the beachline tree, the sweep driver and  *)
(* the DCEL it grows.                                                      *)
(*                                                                         *)
(* Encoding.                                                               *)
(*  - Site coordinates are integers.  Every f64 the code derives from them *)
(*    is kept exactly: a quotient as a reduced fraction [n, d], a value    *)
(*    p - sqrt(s) as a "surd" [a, n, d] standing for (a - sqrt(n)) / d.    *)
(*    Two events whose sweep values are equal as real numbers may come out *)
(*    of the heap in either order.                                         *)
(*  - A Vec or arena index i of the code is the index i + 1 here, and      *)
(*    None / NIL (!0) is 0.  Event ids are the code's own numbers.         *)
(*  - The BinaryHeap is the bag of its entries; pop takes any greatest.    *)
(***************************************************************************)
EXTENDS Integers, Sequences, FiniteSets, Bags, TLC

VARIABLES
    event_queue,   \* Algo.event_queue : [next_event_id, events, removed_event_ids]
    beachline,     \* Algo.beachline   : [graph, edges, root]
    output,        \* Algo.output      : [vertices, halfedges]
    interim_dcel,  \* voronoi_calc's clone of output that the finalizer works on
    pc,            \* where the caller stands: "new", "sweep", "done", "extended", "lined", "boxed", "panic", "queue", "circle", "circled"
    ret,           \* the last call and what it returned
    hist           \* history of the calls made on the event queue

vars == <<event_queue, beachline, output, interim_dcel, pc, ret, hist>>

(***************************************************************************)
(* Bounds                                                                  *)
(***************************************************************************)
MaxCoord == 2      \* site coordinates range over 0 .. MaxCoord
MaxSites == 4      \* length of the site list given to Algo::new
MaxPush == 3       \* pushes made on a free-standing EventQueue

NIL == 0

Coords == 0 .. MaxCoord
P(x, y) == [x |-> x, y |-> y]
Grid == {P(x, y) : x \in Coords, y \in Coords}

(***************************************************************************)
(* Exact arithmetic                                                        *)
(***************************************************************************)
Abs(x) == IF x < 0 THEN -x ELSE x
Sgn(x) == IF x < 0 THEN -1 ELSE IF x = 0 THEN 0 ELSE 1

RECURSIVE GCD(_, _)
GCD(a, b) == IF b = 0 THEN a ELSE GCD(b, a % b)

RECURSIVE ISqrt(_)
ISqrt(n) ==
    IF n < 2 THEN n
    ELSE LET s == 2 * ISqrt(n \div 4)
             l == s + 1
         IN  IF l * l > n THEN s ELSE l

\* n / d as a reduced fraction with a positive denominator; d = 0 gives the
\* undefined value [n |-> 0, d |-> 0] (a float division by zero)
Rat(n, d) ==
    IF d = 0 THEN [n |-> 0, d |-> 0]
    ELSE LET g == GCD(Abs(n), Abs(d))
             s == IF d < 0 THEN -1 ELSE 1
         IN  [n |-> s * (n \div g), d |-> s * (d \div g)]
RatInt(i) == [n |-> i, d |-> 1]
RatDefined(q) == q.d # 0
RatAdd(p, q) == IF p.d = 0 \/ q.d = 0 THEN Rat(0, 0) ELSE Rat(p.n * q.d + q.n * p.d, p.d * q.d)
RatSub(p, q) == IF p.d = 0 \/ q.d = 0 THEN Rat(0, 0) ELSE Rat(p.n * q.d - q.n * p.d, p.d * q.d)
RatMul(p, q) == IF p.d = 0 \/ q.d = 0 THEN Rat(0, 0) ELSE Rat(p.n * q.n, p.d * q.d)
RatSgn(p) == Sgn(p.n)
RatCmp(p, q) == Sgn(p.n * q.d - q.n * p.d)

\* (a - sqrt(n)) / d in lowest terms, d > 0, n >= 0
Surd(a, n, d) ==
    LET k == ISqrt(n)
    IN  IF k * k = n
        THEN LET q == Rat(a - k, d) IN [a |-> q.n, n |-> 0, d |-> q.d]
        ELSE LET gs == {g \in 1 .. d : d % g = 0 /\ a % g = 0 /\ n % (g * g) = 0}
                 g == CHOOSE x \in gs : \A z \in gs : z <= x
             IN  [a |-> a \div g, n |-> n \div (g * g), d |-> d \div g]
SurdInt(i) == [a |-> i, n |-> 0, d |-> 1]
\* p - sqrt(s) for fractions p and s >= 0
SurdOf(p, s) ==
    LET m == (p.d * s.d) \div GCD(p.d, s.d)
    IN  Surd(p.n * (m \div p.d), s.n * s.d * (m \div s.d) * (m \div s.d), m)
\* u + q and u - q for a surd u and a fraction q
SurdAddRat(u, q) ==
    LET m == (u.d * q.d) \div GCD(u.d, q.d)
    IN  Surd(u.a * (m \div u.d) + q.n * (m \div q.d), u.n * (m \div u.d) * (m \div u.d), m)
SurdSubRat(u, q) == SurdAddRat(u, [n |-> -q.n, d |-> q.d])

\* sign of f * sqrt(M) - E, for f > 0, M >= 0, E > 0
SignFSqrt(f, M, E) ==
    LET k == ISqrt(M)
    IN  IF k * k = M THEN Sgn(f * k - E)
        ELSE IF E <= k * f THEN 1
        ELSE IF E >= (k + 1) * f THEN -1
        ELSE LET m == E - k * f
                 T == f * (M - k * k) - 2 * k * m
             IN  IF T <= 0 THEN -1 ELSE IF T >= f THEN 1 ELSE Sgn(f * T - m * m)
\* sign of A - (sqrt(B) - sqrt(C)), for A > 0 and B > C >= 0, where
\* sqrt(B * C) = (f / 2) * sqrt(M)
SignPos(A, B, C, f, M) ==
    LET E == B + C - A * A
    IN  IF E <= 0 THEN (IF E = 0 /\ M = 0 THEN 0 ELSE 1) ELSE SignFSqrt(f, M, E)
\* sign of u - v for surds u and v
SurdCmp(u, v) ==
    LET A == u.a * v.d - v.a * u.d
        B == v.d * v.d * u.n
        C == u.d * u.d * v.n
        f == 2 * u.d * v.d
        M == u.n * v.n
    IN  IF B = C THEN Sgn(A)
        ELSE IF A = 0 THEN Sgn(C - B)
        ELSE IF A > 0 THEN (IF C > B THEN 1 ELSE SignPos(A, B, C, f, M))
        ELSE (IF C < B THEN -1 ELSE -SignPos(-A, C, B, f, M))


(***************************************************************************)
(* geom.rs: circumcircle of a triple of sites                              *)
(***************************************************************************)
None == [kind |-> "None"]
Some(v) == [kind |-> "Some", v |-> v]

\* the determinant with the sign of its second product flipped
CircleDenom_sign_slip(triple) ==
    LET a1 == -2 * (triple[1].x - triple[3].x)
        a2 == -2 * (triple[2].x - triple[3].x)
        b1 == -2 * (triple[1].y - triple[3].y)
        b2 == -2 * (triple[2].y - triple[3].y)
    IN  b1 * a2 + b2 * a1

\* the determinant circle_center divides by
CircleDenom(triple) ==
    LET a1 == -2 * (triple[1].x - triple[3].x)
        a2 == -2 * (triple[2].x - triple[3].x)
        b1 == -2 * (triple[1].y - triple[3].y)
        b2 == -2 * (triple[2].y - triple[3].y)
    IN  b1 * a2 - b2 * a1

\* circle_center with c1 in place of c2 in the first branch for x
circle_center_mixed_rows(triple) ==
    LET c1 == triple[3].x * triple[3].x + triple[3].y * triple[3].y
                - triple[1].x * triple[1].x - triple[1].y * triple[1].y
        c2 == triple[3].x * triple[3].x + triple[3].y * triple[3].y
                - triple[2].x * triple[2].x - triple[2].y * triple[2].y
        a1 == -2 * (triple[1].x - triple[3].x)
        a2 == -2 * (triple[2].x - triple[3].x)
        b1 == -2 * (triple[1].y - triple[3].y)
        b2 == -2 * (triple[2].y - triple[3].y)
        numer == c1 * a2 - c2 * a1
        denom == b1 * a2 - b2 * a1
        x_cen == IF a2 # 0
                 THEN Rat(c1 * denom - b2 * numer, a2 * denom)
                 ELSE Rat(c1 * denom - b1 * numer, a1 * denom)
    IN  IF denom = 0 THEN None ELSE Some([x |-> x_cen, y |-> Rat(numer, denom)])

circle_center(triple) ==
    LET x1 == triple[1].x
        x2 == triple[2].x
        x3 == triple[3].x
        y1 == triple[1].y
        y2 == triple[2].y
        y3 == triple[3].y
        c1 == x3 * x3 + y3 * y3 - x1 * x1 - y1 * y1
        c2 == x3 * x3 + y3 * y3 - x2 * x2 - y2 * y2
        a1 == -2 * (x1 - x3)
        a2 == -2 * (x2 - x3)
        b1 == -2 * (y1 - y3)
        b2 == -2 * (y2 - y3)
        numer == c1 * a2 - c2 * a1
        denom == CircleDenom(triple)
        y_cen == Rat(numer, denom)
        x_cen == IF a2 # 0
                 THEN Rat(c2 * denom - b2 * numer, a2 * denom)
                 ELSE Rat(c1 * denom - b1 * numer, a1 * denom)
    IN  IF denom = 0 THEN None ELSE Some([x |-> x_cen, y |-> y_cen])

\* y_cen - r, r the distance from the centre to the third site
BottomOf(circle_center_pt, p3) ==
    LET dx == RatSub(RatInt(p3.x), circle_center_pt.x)
        dy == RatSub(RatInt(p3.y), circle_center_pt.y)
    IN  SurdOf(circle_center_pt.y, RatAdd(RatMul(dx, dx), RatMul(dy, dy)))

circle_bottom(triple) ==
    LET cc == circle_center(triple)
    IN  IF cc = None THEN None ELSE Some(BottomOf(cc.v, triple[3]))

(***************************************************************************)
(* event.rs: Event, its order, EventQueue                                  *)
(***************************************************************************)
SiteEvent(pt) == [kind |-> "Site", pt |-> pt]
CircleEvent(center, radius, vanishing_arc, id) ==
    [kind |-> "Circle", center |-> center, radius |-> radius,
     vanishing_arc |-> vanishing_arc, id |-> id]

\* (variant of get_y) a circle event is ranked by the y of its centre
get_y_of_centre(event) ==
    IF event.kind = "Site" THEN SurdInt(event.pt.y)
    ELSE SurdAddRat(SurdInt(0), event.center.y)

\* the sweep value of an event
get_y(event) ==
    IF event.kind = "Site" THEN SurdInt(event.pt.y)
    ELSE SurdAddRat(event.radius, event.center.y)

\* Ord for Event: -1 Less, 0 Equal, 1 Greater
EventCmp(e, f) == SurdCmp(get_y(e), get_y(f))

EventQueueNew == [next_event_id |-> 0, events |-> EmptyBag, removed_event_ids |-> {}]

\* (variant of Stamp) the event is stored with the id its caller gave it
Stamp_keeps_caller_id(event, event_id) == event

\* the event as push stores it: a circle event is stamped with the fresh id
Stamp(event, event_id) ==
    IF event.kind = "Circle" THEN [event EXCEPT !.id = event_id] ELSE event

\* push: the queue afterwards and the id returned
push(q, event) ==
    LET event_id == q.next_event_id
    IN  [q |-> [q EXCEPT !.next_event_id = event_id + 1,
                         !.events = @ (+) SetToBag({Stamp(event, event_id)})],
         id |-> event_id]

\* (variant of Discards) the cancelled set is looked up with the arc index
Discards_by_arc(removed, event) ==
    event.kind = "Circle" /\ event.vanishing_arc \in removed

\* (variant of Discards) a site event is looked up as if it carried id 0
Discards_site_as_zero(removed, event) ==
    (IF event.kind = "Circle" THEN event.id ELSE 0) \in removed

\* whether pop drops the entry it has just taken from the heap
Discards(removed, event) == event.kind = "Circle" /\ event.id \in removed

\* (variant of Greatest) the order of events is reversed
Greatest_reversed(events) ==
    {e \in BagToSet(events) : \A f \in BagToSet(events) : EventCmp(f, e) >= 0}

\* the entries BinaryHeap::pop may hand out: those no other entry exceeds
Greatest(events) ==
    {e \in BagToSet(events) : \A f \in BagToSet(events) : EventCmp(f, e) <= 0}

\* pop: every outcome [q, ret] of the loop, ret the event returned or None
RECURSIVE pop(_)
pop(q) ==
    IF BagToSet(q.events) = {} THEN {[q |-> q, ret |-> None]}
    ELSE UNION {
           LET rest == q.events (-) SetToBag({e})
           IN  IF Discards(q.removed_event_ids, e)
               THEN pop([q EXCEPT !.events = rest,
                                  !.removed_event_ids = {i \in @ : ~Discards({i}, e)}])
               ELSE {[q |-> [q EXCEPT !.events = rest], ret |-> e]}
           : e \in Greatest(q.events)}

\* (variant of remove) the cancelled entry is taken out of the heap at once
remove_eager(q, event_id) ==
    [q EXCEPT !.removed_event_ids = @ \cup {event_id},
              !.events = [e \in {x \in BagToSet(@) : ~Discards({event_id}, x)} |-> @[e]]]

remove(q, event_id) == [q EXCEPT !.removed_event_ids = @ \cup {event_id}]


(***************************************************************************)
(* A free-standing EventQueue under any interleaving of push, pop, remove  *)
(***************************************************************************)
EmptyBeachline == [graph |-> <<>>, edges |-> {}, root |-> NIL]
EmptyDCEL == [vertices |-> <<>>, halfedges |-> <<>>]
HistNew == [pushes |-> <<>>, removed_log |-> {}, returned |-> EmptyBag]

\* the circle event make_circle_event builds from the centre and the bottom
\* of the circle; its id is a placeholder that push overwrites
CircleEventAt(center, bottom, arc) ==
    CircleEvent(center, SurdSubRat(bottom, center.y), arc, 0)
NewCircleEvent(arc, triple) ==
    CircleEventAt(circle_center(triple).v, circle_bottom(triple).v, arc)

\* what callers hand to push: sites, and circle events carrying any id
QSites == {P(0, 0), P(0, 1)}
QTriples == {<<P(0, 2), P(2, 2), P(1, 1)>>, <<P(0, 2), P(2, 2), P(2, 0)>>}
QEvents ==
    {SiteEvent(pt) : pt \in QSites}
    \cup {[NewCircleEvent(1, t) EXCEPT !.id = i] : t \in QTriples, i \in 0 .. MaxPush}

\* the entries a heap holds that it did not hold before
NewEntries(old, new) == {x \in BagToSet(new) : CopiesIn(x, new) > CopiesIn(x, old)}

InitQ ==
    /\ event_queue = EventQueueNew
    /\ beachline = EmptyBeachline
    /\ output = EmptyDCEL
    /\ interim_dcel = EmptyDCEL
    /\ pc = "queue"
    /\ ret = [op |-> "new", val |-> None]
    /\ hist = HistNew

QPush ==
    /\ pc = "queue"
    /\ event_queue.next_event_id < MaxPush
    /\ \E event \in QEvents :
         LET r == push(event_queue, event)
         IN  /\ event_queue' = r.q
             /\ ret' = [op |-> "push", val |-> r.id]
             /\ hist' = [hist EXCEPT !.pushes = Append(@,
                           [id |-> r.id,
                            stored |-> NewEntries(event_queue.events, r.q.events)])]
    /\ UNCHANGED <<beachline, output, interim_dcel, pc>>

QPop ==
    /\ pc = "queue"
    /\ \E r \in pop(event_queue) :
         /\ event_queue' = r.q
         /\ ret' = [op |-> "pop", val |-> r.ret]
         /\ hist' = [hist EXCEPT !.returned =
                       IF r.ret = None THEN @ ELSE @ (+) SetToBag({r.ret})]
    /\ UNCHANGED <<beachline, output, interim_dcel, pc>>

QRemove ==
    /\ pc = "queue"
    /\ \E event_id \in 0 .. MaxPush - 1 :
         /\ event_queue' = remove(event_queue, event_id)
         /\ ret' = [op |-> "remove", val |-> None]
         /\ hist' = [hist EXCEPT !.removed_log = @ \cup {event_id}]
    /\ UNCHANGED <<beachline, output, interim_dcel, pc>>

NextQ == QPush \/ QPop \/ QRemove

SpecQ == InitQ /\ [][NextQ]_vars

(***************************************************************************)
(* beachline.rs: the tree of arcs and breakpoints                          *)
(***************************************************************************)
ArcItem(site, site_event) == [kind |-> "Arc", site |-> site, site_event |-> site_event]
\* (variant of BreakpointItem) the breakpoint is given no half-edge
BreakpointItem_no_edge(left, right, edge_idx) ==
    [kind |-> "Breakpoint", left |-> left, right |-> right, edge_idx |-> NIL]
\* (variant of BreakpointItem) the two sites change places
BreakpointItem_swapped(left, right, edge_idx) ==
    [kind |-> "Breakpoint", left |-> right, right |-> left, edge_idx |-> edge_idx]
BreakpointItem(left, right, edge_idx) ==
    [kind |-> "Breakpoint", left |-> left, right |-> right, edge_idx |-> edge_idx]
BeachNode(parent, left, right, item) ==
    [parent |-> parent, left |-> left, right |-> right, item |-> item]
make_root(item) == BeachNode(NIL, NIL, NIL, item)
\* (variant of make_arc) the new arc is given no parent
make_arc_orphan(parent, item) == BeachNode(NIL, NIL, NIL, item)
\* (variant of make_arc) the new arc names event 0 as pending
make_arc_with_event(parent, item) ==
    BeachNode(parent, NIL, NIL, [item EXCEPT !.site_event = Some(0)])
make_arc(parent, item) == BeachNode(parent, NIL, NIL, item)

\* a coordinate (a + s * sqrt(n)) / d with d > 0 and s = 1 or -1; nan is
\* the square root of a negative number
Root(a, s, n, d) == [a |-> a, s |-> s, n |-> n, d |-> d, nan |-> n < 0]

\* Breakpoint::get_x at sweep position yl
get_x(bp, yl) ==
    LET ax == bp.left.x
        bx == bp.right.x
        ay == bp.left.y
        by == bp.right.y
        bx_s == bx - ax
        ay_s == ay - yl
        by_s == by - yl
        discrim == ay_s * by_s * ((ay_s - by_s) * (ay_s - by_s) + bx_s * bx_s)
        denom == ay_s - by_s
    IN  IF denom > 0 THEN Root(ay_s * bx_s + ax * denom, -1, discrim, denom)
        ELSE IF denom < 0 THEN Root(-(ay_s * bx_s + ax * denom), 1, discrim, -denom)
        ELSE Root(bx_s + 2 * ax, 1, 0, 2)

\* x < r for an integer x and a coordinate r (false when r is NaN)
IntLessRoot(x, r) ==
    LET W == x * r.d - r.a
    IN  IF r.nan THEN FALSE
        ELSE IF r.s = 1 THEN W < 0 \/ W * W < r.n
        ELSE W < 0 /\ W * W > r.n

\* (variant of breakpoints_converge) with >= in place of >
breakpoints_converge_or_equal(triple) ==
    LET a == triple[1]
        b == triple[2]
        c == triple[3]
    IN  (a.y - b.y) * (b.x - c.x) >= (b.y - c.y) * (a.x - b.x)

\* (ay - by)(bx - cx) > (by - cy)(ax - bx)
breakpoints_converge(triple) ==
    LET a == triple[1]
        b == triple[2]
        c == triple[3]
    IN  (a.y - b.y) * (b.x - c.x) > (b.y - c.y) * (a.x - b.x)

is_empty(b) == Cardinality(b.edges) = 0 /\ Len(b.graph) = 0

\* (variant of insert_point) the new node is not made the root
insert_point_no_root(b, pt) ==
    [b EXCEPT !.graph = Append(@, make_root(ArcItem(pt, None)))]

\* (variant of insert_point) the root arc names event 0 as pending
insert_point_with_event(b, pt) ==
    [b EXCEPT !.graph = Append(@, make_root(ArcItem(pt, Some(0)))),
              !.root = Len(b.graph) + 1]

insert_point(b, pt) ==
    [b EXCEPT !.graph = Append(@, make_root(ArcItem(pt, None))),
              !.root = Len(b.graph) + 1]

\* the descent of get_arc_above from current_node
RECURSIVE Descend(_, _, _)
Descend(b, pt, current_node) ==
    LET node == b.graph[current_node]
    IN  IF node.item.kind = "Arc" THEN current_node
        ELSE IF IntLessRoot(pt.x, get_x(node.item, pt.y))
             THEN Descend(b, pt, node.left)
             ELSE Descend(b, pt, node.right)
get_arc_above(b, pt) == Descend(b, pt, b.root)

RECURSIVE tree_minimum(_, _)
tree_minimum(b, root) ==
    IF b.graph[root].left # NIL THEN tree_minimum(b, b.graph[root].left) ELSE root

RECURSIVE tree_maximum(_, _)
tree_maximum(b, root) ==
    IF b.graph[root].right # NIL THEN tree_maximum(b, b.graph[root].right) ELSE root

\* the loop of successor: climb while the node is a right child
RECURSIVE ClimbFromRight(_, _, _)
ClimbFromRight(b, current_node, current_parent) ==
    IF current_parent # NIL /\ b.graph[current_parent].right = current_node
    THEN ClimbFromRight(b, current_parent, b.graph[current_parent].parent)
    ELSE current_parent

\* (variant of successor) without the climb: the parent is the answer
successor_no_climb(b, node) ==
    IF b.graph[node].right # NIL THEN tree_minimum(b, b.graph[node].right)
    ELSE b.graph[node].parent

successor(b, node) ==
    IF b.graph[node].right # NIL THEN tree_minimum(b, b.graph[node].right)
    ELSE ClimbFromRight(b, node, b.graph[node].parent)

\* the loop of predecessor: climb while the node is a left child
RECURSIVE ClimbFromLeft(_, _, _)
ClimbFromLeft(b, current_node, current_parent) ==
    IF current_parent # NIL /\ b.graph[current_parent].left = current_node
    THEN ClimbFromLeft(b, current_parent, b.graph[current_parent].parent)
    ELSE current_parent

predecessor(b, node) ==
    IF b.graph[node].left # NIL THEN tree_maximum(b, b.graph[node].left)
    ELSE ClimbFromLeft(b, node, b.graph[node].parent)

\* (variant of get_left_arc) one hop instead of two
get_left_arc_one_hop(b, node) ==
    IF node = NIL THEN NIL ELSE predecessor(b, node)

\* an Option<usize> in, an Option<usize> out
get_left_arc(b, node) ==
    IF node = NIL THEN NIL
    ELSE IF predecessor(b, node) = NIL THEN NIL
    ELSE predecessor(b, predecessor(b, node))

get_right_arc(b, node) ==
    IF node = NIL THEN NIL
    ELSE IF successor(b, node) = NIL THEN NIL
    ELSE successor(b, successor(b, node))

get_site(b, node) ==
    IF node = NIL THEN None
    ELSE IF b.graph[node].item.kind = "Arc" THEN Some(b.graph[node].item.site)
    ELSE None

get_leftward_triple(b, node) ==
    LET l_arc == get_left_arc(b, node)
        ll_arc == get_left_arc(b, l_arc)
        this_site == get_site(b, node)
        l_site == get_site(b, l_arc)
        ll_site == get_site(b, ll_arc)
    IN  IF this_site # None /\ l_site # None /\ ll_site # None
        THEN Some(<<ll_site.v, l_site.v, this_site.v>>)
        ELSE None

get_rightward_triple(b, node) ==
    LET r_arc == get_right_arc(b, node)
        rr_arc == get_right_arc(b, r_arc)
        this_site == get_site(b, node)
        r_site == get_site(b, r_arc)
        rr_site == get_site(b, rr_arc)
    IN  IF this_site # None /\ r_site # None /\ rr_site # None
        THEN Some(<<this_site.v, r_site.v, rr_site.v>>)
        ELSE None

get_centered_triple(b, node) ==
    LET r_arc == get_right_arc(b, node)
        l_arc == get_left_arc(b, node)
        this_site == get_site(b, node)
        r_site == get_site(b, r_arc)
        l_site == get_site(b, l_arc)
    IN  IF this_site # None /\ l_site # None /\ r_site # None
        THEN Some(<<l_site.v, this_site.v, r_site.v>>)
        ELSE None

\* both are called on breakpoints only (on an arc they panic)
set_right_site(b, node, site) == [b EXCEPT !.graph[node].item.right = site]
set_left_site(b, node, site) == [b EXCEPT !.graph[node].item.left = site]
IsBreakpoint(b, node) == b.graph[node].item.kind = "Breakpoint"
IsArc(b, node) == b.graph[node].item.kind = "Arc"
get_edge(b, node) == b.graph[node].item.edge_idx

(***************************************************************************)
(* dcel: the vertex and half-edge store                                    *)
(***************************************************************************)
HalfEdge(origin, twin, next, alive) ==
    [origin |-> origin, twin |-> twin, next |-> next, alive |-> alive]
Vertex(coordinates, incident_edge, alive) ==
    [coordinates |-> coordinates, incident_edge |-> incident_edge, alive |-> alive]

\* DCEL::add_twins: two new half-edges, each the twin of the other, with no
\* origin and no next; returns their indices
add_twins(dcel) ==
    LET start_index == Len(dcel.halfedges) + 1
    IN  [dcel |-> [dcel EXCEPT !.halfedges =
                     @ \o <<HalfEdge(NIL, start_index + 1, NIL, TRUE),
                            HalfEdge(NIL, start_index, NIL, TRUE)>>],
         twin1 |-> start_index,
         twin2 |-> start_index + 1]

(***************************************************************************)
(* voronoi.rs: the sweep driver.  An Algo value a is                       *)
(* [event_queue, beachline, output, panicked]; a call that panics returns  *)
(* the value it was given with panicked set.                               *)
(***************************************************************************)
AlgoNew == [event_queue |-> EventQueueNew, beachline |-> EmptyBeachline,
            output |-> EmptyDCEL, panicked |-> FALSE]
Panic(a) == [a EXCEPT !.panicked = TRUE]

\* (variant of remove_circle_event) the arc forgets its event and the queue
\* is not told
remove_circle_event_keeps_queued(a, arc_idx) ==
    IF a.beachline.graph[arc_idx].item.kind = "Arc"
    THEN [a EXCEPT !.beachline.graph[arc_idx].item.site_event = None]
    ELSE a

remove_circle_event(a, arc_idx) ==
    LET item == a.beachline.graph[arc_idx].item
        circle_event == IF item.kind = "Arc" THEN item.site_event ELSE None
        a1 == IF item.kind = "Arc"
              THEN [a EXCEPT !.beachline.graph[arc_idx].item.site_event = None]
              ELSE a
    IN  IF circle_event # None
        THEN [a1 EXCEPT !.event_queue = remove(@, circle_event.v)]
        ELSE a1

\* (variant of SetSiteEvent) the event is pushed and the arc is not told
SetSiteEvent_arc_not_told(a, arc, r) == [a EXCEPT !.event_queue = r.q]

\* the assignment arc.site_event = Some(self.event_queue.push(this_event)),
\* r what push returned
SetSiteEvent(a, arc, r) ==
    [a EXCEPT !.event_queue = r.q,
              !.beachline.graph[arc].item.site_event = Some(r.id)]

make_circle_event(a, arc, triple) ==
    IF circle_center(triple) # None /\ a.beachline.graph[arc].item.kind = "Arc"
    THEN SetSiteEvent(a, arc, push(a.event_queue, NewCircleEvent(arc, triple)))
    ELSE a

\* split_arc: the Algo afterwards and the index of the node of the new arc
split_arc(a, arc, site) ==
    LET b == a.beachline
        parent == b.graph[arc].parent
        arc_pt == IF b.graph[arc].item.kind = "Arc" THEN b.graph[arc].item.site ELSE P(0, 0)
        t == add_twins(a.output)
        ind_AB == Len(b.graph) + 1
        ind_BA == ind_AB + 1
        ind_A1 == ind_AB + 2
        ind_B == ind_AB + 3
        ind_A2 == ind_AB + 4
        node_AB == BeachNode(parent, ind_A1, ind_BA, BreakpointItem(arc_pt, site, t.twin1))
        node_BA == BeachNode(ind_AB, ind_B, ind_A2, BreakpointItem(site, arc_pt, t.twin2))
        node_A1 == make_arc(ind_AB, ArcItem(arc_pt, None))
        node_B == make_arc(ind_BA, ArcItem(site, None))
        node_A2 == make_arc(ind_BA, ArcItem(arc_pt, None))
        graph1 == b.graph \o <<node_AB, node_BA, node_A1, node_B, node_A2>>
        edges1 == b.edges \cup {<<ind_AB, ind_A1>>, <<ind_AB, ind_BA>>,
                                <<ind_BA, ind_B>>, <<ind_BA, ind_A2>>}
        edges2 == (edges1 \ {<<parent, arc>>}) \cup {<<parent, ind_AB>>}
        a1 == [a EXCEPT !.output = t.dcel]
    IN  IF parent # NIL
        THEN IF b.graph[parent].right = arc
             THEN [a |-> [a1 EXCEPT !.beachline =
                            [graph |-> [graph1 EXCEPT ![parent].right = ind_AB],
                             edges |-> edges2, root |-> b.root]],
                   ret |-> ind_B]
             ELSE IF b.graph[parent].left = arc
             THEN [a |-> [a1 EXCEPT !.beachline =
                            [graph |-> [graph1 EXCEPT ![parent].left = ind_AB],
                             edges |-> edges2, root |-> b.root]],
                   ret |-> ind_B]
             ELSE [a |-> Panic(a), ret |-> NIL]
        ELSE [a |-> [a1 EXCEPT !.beachline =
                       [graph |-> graph1, edges |-> edges1, root |-> ind_AB]],
              ret |-> ind_B]

\* the circle event of the middle arc of a triple, when the triple exists
\* and its breakpoints converge; nothing more happens after a panic
CheckTriple(a, arc, triple) ==
    IF a.panicked THEN a
    ELSE IF triple # None /\ breakpoints_converge(triple.v)
    THEN (IF arc = NIL THEN Panic(a) ELSE make_circle_event(a, arc, triple.v))
    ELSE a
\* the three checks of the handlers: the triple that ends at node, the one
\* that starts at node, the one centred on node
CheckLeftward(a, node) ==
    IF a.panicked THEN a
    ELSE CheckTriple(a, get_left_arc(a.beachline, node),
                     get_leftward_triple(a.beachline, node))
\* (variant of CheckRightward) the rightward triple is not looked at
CheckRightward_never(a, node) == a
CheckRightward(a, node) ==
    IF a.panicked THEN a
    ELSE CheckTriple(a, get_right_arc(a.beachline, node),
                     get_rightward_triple(a.beachline, node))
CheckCentered(a, node) ==
    IF a.panicked THEN a
    ELSE CheckTriple(a, node, get_centered_triple(a.beachline, node))

\* handle_site_event from the split on, sp what split_arc returned
AfterSplit(sp) == CheckRightward(CheckLeftward(sp.a, sp.ret), sp.ret)

handle_site_event(a, site) ==
    IF is_empty(a.beachline)
    THEN [a EXCEPT !.beachline = insert_point(@, site)]
    ELSE IF a.beachline.root = NIL THEN Panic(a)
    ELSE LET arc_above == get_arc_above(a.beachline, site)
         IN  AfterSplit(split_arc(remove_circle_event(a, arc_above), arc_above, site))

\* whether one of the unwraps or explicit panics of delete_leaf fires
delete_leaf_panics(b, leaf) ==
    LET pred == predecessor(b, leaf)
        succ == successor(b, leaf)
        parent == b.graph[leaf].parent
        grandparent == b.graph[parent].parent
        other == IF parent = pred THEN succ ELSE pred
        sibling == IF b.graph[parent].right = leaf THEN b.graph[parent].left
                   ELSE b.graph[parent].right
        graph1 == [b.graph EXCEPT ![sibling].parent = grandparent]
        graph2 == IF graph1[grandparent].left = parent
                  THEN [graph1 EXCEPT ![grandparent].left = sibling]
                  ELSE [graph1 EXCEPT ![grandparent].right = sibling]
        b2 == [b EXCEPT !.graph = graph2]
        new_other == IF other = pred THEN successor(b2, other) ELSE predecessor(b2, other)
    IN  \/ pred = NIL \/ succ = NIL \/ parent = NIL
        \/ grandparent = NIL
        \/ b.graph[parent].right = NIL
        \/ (b.graph[parent].right # leaf /\ b.graph[parent].left = NIL)
        \/ (b.graph[parent].right # leaf /\ b.graph[parent].left # leaf)
        \/ sibling = NIL
        \/ graph1[grandparent].left = NIL
        \/ (graph1[grandparent].left # parent /\ graph1[grandparent].right = NIL)
        \/ (graph1[grandparent].left # parent /\ graph1[grandparent].right # parent)
        \/ new_other = NIL
        \/ get_site(b2, new_other) = None
        \/ ~IsBreakpoint(b2, other)

\* delete_leaf without the correction of the site on 'other'
delete_leaf_keeps_site(b, leaf) ==
    LET pred == predecessor(b, leaf)
        succ == successor(b, leaf)
        parent == b.graph[leaf].parent
        grandparent == b.graph[parent].parent
        other == IF parent = pred THEN succ ELSE pred
        sibling == IF b.graph[parent].right = leaf THEN b.graph[parent].left
                   ELSE b.graph[parent].right
        graph1 == [b.graph EXCEPT ![sibling].parent = grandparent]
        graph2 == IF graph1[grandparent].left = parent
                  THEN [graph1 EXCEPT ![grandparent].left = sibling]
                  ELSE [graph1 EXCEPT ![grandparent].right = sibling]
    IN  [b |-> [b EXCEPT !.graph = graph2], pred |-> pred, succ |-> succ,
         parent |-> parent, other |-> other]

\* delete_leaf without the new parent of the sibling
delete_leaf_stale_parent(b, leaf) ==
    LET pred == predecessor(b, leaf)
        succ == successor(b, leaf)
        parent == b.graph[leaf].parent
        grandparent == b.graph[parent].parent
        other == IF parent = pred THEN succ ELSE pred
        sibling == IF b.graph[parent].right = leaf THEN b.graph[parent].left
                   ELSE b.graph[parent].right
        graph2 == IF b.graph[grandparent].left = parent
                  THEN [b.graph EXCEPT ![grandparent].left = sibling]
                  ELSE [b.graph EXCEPT ![grandparent].right = sibling]
        b2 == [b EXCEPT !.graph = graph2]
        b3 == IF other = pred
              THEN set_right_site(b2, other, get_site(b2, successor(b2, other)).v)
              ELSE set_left_site(b2, other, get_site(b2, predecessor(b2, other)).v)
    IN  [b |-> b3, pred |-> pred, succ |-> succ, parent |-> parent, other |-> other]

\* delete_leaf: the beachline afterwards and (pred, succ, parent, other)
delete_leaf(b, leaf) ==
    LET pred == predecessor(b, leaf)
        succ == successor(b, leaf)
        parent == b.graph[leaf].parent
        grandparent == b.graph[parent].parent
        other == IF parent = pred THEN succ ELSE pred
        sibling == IF b.graph[parent].right = leaf THEN b.graph[parent].left
                   ELSE b.graph[parent].right
        graph1 == [b.graph EXCEPT ![sibling].parent = grandparent]
        graph2 == IF graph1[grandparent].left = parent
                  THEN [graph1 EXCEPT ![grandparent].left = sibling]
                  ELSE [graph1 EXCEPT ![grandparent].right = sibling]
        b2 == [b EXCEPT !.graph = graph2]
        b3 == IF other = pred
              THEN set_right_site(b2, other, get_site(b2, successor(b2, other)).v)
              ELSE set_left_site(b2, other, get_site(b2, predecessor(b2, other)).v)
    IN  [b |-> b3, pred |-> pred, succ |-> succ, parent |-> parent, other |-> other]

\* the DCEL part of handle_circle_event with the last next pointer written
\* to the twin field
LinkVertex_sets_twin(dcel0, center, pred_edge, succ_edge, parent_edge, other_edge) ==
    LET t == add_twins(dcel0)
        center_vertex_ind == Len(t.dcel.vertices) + 1
        d1 == [t.dcel EXCEPT !.vertices = Append(@, Vertex(center, t.twin1, TRUE))]
        pred_edge_twin == d1.halfedges[pred_edge].twin
        succ_edge_twin == d1.halfedges[succ_edge].twin
        h1 == [d1.halfedges EXCEPT ![parent_edge].origin = center_vertex_ind]
        h2 == [h1 EXCEPT ![other_edge].origin = center_vertex_ind]
        h3 == [h2 EXCEPT ![t.twin1].origin = center_vertex_ind]
        h4 == [h3 EXCEPT ![pred_edge_twin].next = succ_edge]
        h5 == [h4 EXCEPT ![succ_edge_twin].next = t.twin1]
        h6 == [h5 EXCEPT ![t.twin2].twin = pred_edge]
    IN  [dcel |-> [d1 EXCEPT !.halfedges = h6], twin1 |-> t.twin1, twin2 |-> t.twin2]

\* the DCEL part of handle_circle_event with the vertex made the origin of
\* the second half-edge of the new pair instead of the first
LinkVertex_origin_on_twin2(dcel0, center, pred_edge, succ_edge, parent_edge, other_edge) ==
    LET t == add_twins(dcel0)
        center_vertex_ind == Len(t.dcel.vertices) + 1
        d1 == [t.dcel EXCEPT !.vertices = Append(@, Vertex(center, t.twin1, TRUE))]
        pred_edge_twin == d1.halfedges[pred_edge].twin
        succ_edge_twin == d1.halfedges[succ_edge].twin
        h1 == [d1.halfedges EXCEPT ![parent_edge].origin = center_vertex_ind]
        h2 == [h1 EXCEPT ![other_edge].origin = center_vertex_ind]
        h3 == [h2 EXCEPT ![t.twin2].origin = center_vertex_ind]
        h4 == [h3 EXCEPT ![pred_edge_twin].next = succ_edge]
        h5 == [h4 EXCEPT ![succ_edge_twin].next = t.twin1]
        h6 == [h5 EXCEPT ![t.twin2].next = pred_edge]
    IN  [dcel |-> [d1 EXCEPT !.halfedges = h6], twin1 |-> t.twin1, twin2 |-> t.twin2]

\* (variant of LinkVertex) no new twin pair: the edge of the predecessor
\* breakpoint is used in its place
LinkVertex_no_new_edge(dcel0, center, pred_edge, succ_edge, parent_edge, other_edge) ==
    LET twin1 == pred_edge
        twin2 == dcel0.halfedges[pred_edge].twin
        center_vertex_ind == Len(dcel0.vertices) + 1
        d1 == [dcel0 EXCEPT !.vertices = Append(@, Vertex(center, twin1, TRUE))]
        h1 == [d1.halfedges EXCEPT ![parent_edge].origin = center_vertex_ind]
        h2 == [h1 EXCEPT ![other_edge].origin = center_vertex_ind]
        h3 == [h2 EXCEPT ![twin1].origin = center_vertex_ind]
        h4 == [h3 EXCEPT ![twin2].next = succ_edge]
        h5 == [h4 EXCEPT ![d1.halfedges[succ_edge].twin].next = twin1]
    IN  [dcel |-> [d1 EXCEPT !.halfedges = h5], twin1 |-> twin1, twin2 |-> twin2]

\* the DCEL part of handle_circle_event: the new vertex, the new twin pair
\* and the origin and next pointers around the vertex
LinkVertex(dcel0, center, pred_edge, succ_edge, parent_edge, other_edge) ==
    LET t == add_twins(dcel0)
        center_vertex_ind == Len(t.dcel.vertices) + 1
        d1 == [t.dcel EXCEPT !.vertices = Append(@, Vertex(center, t.twin1, TRUE))]
        pred_edge_twin == d1.halfedges[pred_edge].twin
        succ_edge_twin == d1.halfedges[succ_edge].twin
        h1 == [d1.halfedges EXCEPT ![parent_edge].origin = center_vertex_ind]
        h2 == [h1 EXCEPT ![other_edge].origin = center_vertex_ind]
        h3 == [h2 EXCEPT ![t.twin1].origin = center_vertex_ind]
        h4 == [h3 EXCEPT ![pred_edge_twin].next = succ_edge]
        h5 == [h4 EXCEPT ![succ_edge_twin].next = t.twin1]
        h6 == [h5 EXCEPT ![t.twin2].next = pred_edge]
    IN  [dcel |-> [d1 EXCEPT !.halfedges = h6], twin1 |-> t.twin1, twin2 |-> t.twin2]

\* (variant of AfterLink) the remaining breakpoint keeps the edge it had
AfterLink_keeps_edge(a, other, lv, left_neighbor, right_neighbor) ==
    CheckCentered(
        CheckCentered([a EXCEPT !.output = lv.dcel], left_neighbor),
        right_neighbor)

\* handle_circle_event after the pointers are wired: the new edge of 'other'
\* and the two checks.  lv is what LinkVertex returned.
AfterLink(a, other, lv, left_neighbor, right_neighbor) ==
    CheckCentered(
        CheckCentered([a EXCEPT !.output = lv.dcel,
                                !.beachline.graph[other].item.edge_idx = lv.twin2],
                      left_neighbor),
        right_neighbor)

\* handle_circle_event after the three calls of remove_circle_event
AfterRemove(a, data, dl, left_neighbor, right_neighbor) ==
    LET pred_edge == get_edge(a.beachline, dl.pred)
        succ_edge == get_edge(a.beachline, dl.succ)
        parent_edge == get_edge(a.beachline, dl.parent)
        other_edge == get_edge(a.beachline, dl.other)
    IN  IF \E n \in {dl.pred, dl.succ, dl.parent, dl.other} : ~IsBreakpoint(a.beachline, n)
        THEN Panic(a)
        ELSE IF \E e \in {pred_edge, succ_edge, parent_edge, other_edge} :
                  e \notin 1 .. Len(a.output.halfedges)
        THEN Panic(a)
        ELSE AfterLink(a, dl.other,
                       LinkVertex(a.output, data.center, pred_edge, succ_edge,
                                  parent_edge, other_edge),
                       left_neighbor, right_neighbor)

\* (variant of AfterDelete) only the event of the vanishing arc is cancelled
AfterDelete_keeps_neighbour_events(a, data, dl, left_neighbor, right_neighbor) ==
    AfterRemove(
        remove_circle_event([a EXCEPT !.beachline = dl.b], data.vanishing_arc),
        data, dl, left_neighbor, right_neighbor)

\* handle_circle_event after delete_leaf, dl what delete_leaf returned
AfterDelete(a, data, dl, left_neighbor, right_neighbor) ==
    AfterRemove(
        remove_circle_event(
            remove_circle_event(
                remove_circle_event([a EXCEPT !.beachline = dl.b], data.vanishing_arc),
                left_neighbor),
            right_neighbor),
        data, dl, left_neighbor, right_neighbor)

handle_circle_event(a, data) ==
    LET leaf == data.vanishing_arc
        left_neighbor == get_left_arc(a.beachline, leaf)
        right_neighbor == get_right_arc(a.beachline, leaf)
    IN  IF leaf \notin 1 .. Len(a.beachline.graph) THEN Panic(a)
        ELSE IF left_neighbor = NIL \/ right_neighbor = NIL THEN Panic(a)
        ELSE IF delete_leaf_panics(a.beachline, leaf) THEN Panic(a)
        ELSE AfterDelete(a, data, delete_leaf(a.beachline, leaf),
                         left_neighbor, right_neighbor)

\* process_next_event answering true on an exhausted queue too
process_next_event_never_false(a) ==
    {IF r.ret = None THEN [a |-> [a EXCEPT !.event_queue = r.q], ret |-> TRUE]
     ELSE LET a1 == [a EXCEPT !.event_queue = r.q]
              a2 == IF r.ret.kind = "Site" THEN handle_site_event(a1, r.ret.pt)
                    ELSE handle_circle_event(a1, r.ret)
          IN  [a |-> a2, ret |-> TRUE]
     : r \in pop(a.event_queue)}

\* process_next_event: every outcome [a, ret], ret = TRUE when an event was
\* handled
process_next_event(a) ==
    {IF r.ret = None THEN [a |-> [a EXCEPT !.event_queue = r.q], ret |-> FALSE]
     ELSE LET a1 == [a EXCEPT !.event_queue = r.q]
              a2 == IF r.ret.kind = "Site" THEN handle_site_event(a1, r.ret.pt)
                    ELSE handle_circle_event(a1, r.ret)
          IN  [a |-> a2, ret |-> TRUE]
     : r \in pop(a.event_queue)}

(***************************************************************************)
(* voronoi.rs: the finalizer.  A coordinate of a vertex is a fraction      *)
(* [n, d] (a circle centre, a corner of the box) or a value                *)
(* (a + c * sqrt(n)) / d, d > 0, written [a, c, n, d, nan] (the far end of *)
(* a ray).                                                                 *)
(***************************************************************************)
WIDTH == 1800
HEIGHT == 1000
\* WIDTH.max(HEIGHT), the size voronoi_calc gives add_bounding_box
BoxSize == IF WIDTH > HEIGHT THEN WIDTH ELSE HEIGHT
\* the sweep position extend_edges evaluates the breakpoints at
FarSweep == -1000
\* the margin of add_bounding_box
BoxDelta == 50

Quad(a, c, n, d, nan) ==
    LET g == GCD(GCD(Abs(a), Abs(c)), Abs(d))
    IN  IF nan \/ d = 0 THEN [a |-> 0, c |-> 0, n |-> 0, d |-> 0, nan |-> TRUE]
        ELSE [a |-> Sgn(d) * (a \div g), c |-> Sgn(d) * (c \div g), n |-> n,
              d |-> Abs(d) \div g, nan |-> FALSE]
QuadOfRoot(r) == Quad(r.a, r.s, r.n, r.d, r.nan)

\* Breakpoint::get_y at sweep position yl: with bp_x = (a + s sqrt(n)) / d
\* and A = px d - a, (px - bp_x)^2 is (A^2 + n - 2 A s sqrt(n)) / d^2
YAtX(px, py, yl, bp_x) ==
    LET A == px * bp_x.d - bp_x.a
        dd == bp_x.d * bp_x.d
    IN  Quad(A * A + bp_x.n + dd * (py - yl) * (py + yl),
             -2 * A * bp_x.s, bp_x.n, dd * 2 * (py - yl), bp_x.nan)
Breakpoint_get_y(bp, yl) == YAtX(bp.left.x, bp.left.y, yl, get_x(bp, yl))

CoordIsNaN(v) == IF "nan" \in DOMAIN v THEN v.nan ELSE v.d = 0
\* sign of v - t / 10 for a coordinate v that is a number
CmpTenth(v, t) ==
    IF "nan" \in DOMAIN v
    THEN LET E == t * v.d - 10 * v.a
         IN  IF v.c = 0 \/ v.n = 0 THEN Sgn(-E)
             ELSE IF v.c > 0
                  THEN (IF E <= 0 THEN 1 ELSE SignFSqrt(10 * v.c, v.n, E))
                  ELSE (IF E >= 0 THEN -1 ELSE -SignFSqrt(-10 * v.c, v.n, -E))
    ELSE Sgn(10 * v.n - t * v.d)

\* (variant of outside_bb) only x is looked at
outside_bb_x_only(pt, box_size) ==
    \/ (~CoordIsNaN(pt.x) /\ CmpTenth(pt.x, -1) < 0)
    \/ (~CoordIsNaN(pt.x) /\ CmpTenth(pt.x, 10 * box_size + 1) > 0)

\* outside_bb, with delta = 0.1 (a comparison with NaN is false)
outside_bb(pt, box_size) ==
    \/ (~CoordIsNaN(pt.x) /\ CmpTenth(pt.x, -1) < 0)
    \/ (~CoordIsNaN(pt.x) /\ CmpTenth(pt.x, 10 * box_size + 1) > 0)
    \/ (~CoordIsNaN(pt.y) /\ CmpTenth(pt.y, -1) < 0)
    \/ (~CoordIsNaN(pt.y) /\ CmpTenth(pt.y, 10 * box_size + 1) > 0)

\* (variant of ExtendBreakpoint) the twin of the edge is left without next
ExtendBreakpoint_open(dcel, breakpoint) ==
    LET this_edge == breakpoint.edge_idx
        this_x == QuadOfRoot(get_x(breakpoint, FarSweep))
        this_y == Breakpoint_get_y(breakpoint, FarSweep)
        vert == Vertex([x |-> this_x, y |-> this_y], this_edge, TRUE)
        vert_ind == Len(dcel.vertices) + 1
        h1 == [dcel.halfedges EXCEPT ![this_edge].origin = vert_ind]
    IN  [vertices |-> Append(dcel.vertices, vert), halfedges |-> h1]

\* the body of the loop of extend_edges at a breakpoint
ExtendBreakpoint(dcel, breakpoint) ==
    LET this_edge == breakpoint.edge_idx
        this_x == QuadOfRoot(get_x(breakpoint, FarSweep))
        this_y == Breakpoint_get_y(breakpoint, FarSweep)
        vert == Vertex([x |-> this_x, y |-> this_y], this_edge, TRUE)
        vert_ind == Len(dcel.vertices) + 1
        this_twin == dcel.halfedges[this_edge].twin
        h1 == [dcel.halfedges EXCEPT ![this_edge].origin = vert_ind]
        h2 == [h1 EXCEPT ![this_twin].next = this_edge]
    IN  [vertices |-> Append(dcel.vertices, vert), halfedges |-> h2]

\* the loop of extend_edges from current_node to the last node in order
RECURSIVE ExtendFrom(_, _, _)
ExtendFrom(b, dcel, current_node) ==
    LET item == b.graph[current_node].item
        d1 == IF item.kind = "Breakpoint" THEN ExtendBreakpoint(dcel, item) ELSE dcel
        next_node == successor(b, current_node)
    IN  IF next_node # NIL THEN ExtendFrom(b, d1, next_node) ELSE d1

\* (variant of extend_edges) the walk starts at the root, not at the
\* leftmost node
extend_edges_from_root(b, dcel) ==
    IF b.root = NIL THEN dcel ELSE ExtendFrom(b, dcel, b.root)

\* extend_edges: every node from the leftmost one on, in order
extend_edges(b, dcel) ==
    IF b.root = NIL THEN dcel ELSE ExtendFrom(b, dcel, tree_minimum(b, b.root))

\* dcel::add_line: a twin pair between two new vertices at the ends of seg
add_line(seg, dcel) ==
    LET t == add_twins(dcel)
        v1 == Len(dcel.vertices) + 1
        v2 == v1 + 1
        h1 == [t.dcel.halfedges EXCEPT ![t.twin1].origin = v1, ![t.twin1].next = t.twin2]
        h2 == [h1 EXCEPT ![t.twin2].origin = v2, ![t.twin2].next = t.twin1]
    IN  [vertices |-> dcel.vertices \o <<Vertex(seg[1], t.twin1, TRUE),
                                         Vertex(seg[2], t.twin2, TRUE)>>,
         halfedges |-> h2]

\* DCEL::remove_vertex: the vertex and the half-edges incident to it are
\* marked dead
remove_vertex(dcel, vert) ==
    [vertices |-> [dcel.vertices EXCEPT ![vert].alive = FALSE],
     halfedges |->
        [i \in 1 .. Len(dcel.halfedges) |->
           LET h == dcel.halfedges[i]
           IN  IF h.origin = vert \/ dcel.halfedges[h.twin].origin = vert
               THEN [h EXCEPT !.alive = FALSE]
               ELSE h]]

BoxPoint(x, y) == [x |-> RatInt(x), y |-> RatInt(y)]

\* add_bounding_box after extend_edges: the four lines of the box
AddBoxLines(boxsize, dcel) ==
    LET delta == BoxDelta
        bb_top == <<BoxPoint(0 - delta, 0), BoxPoint(boxsize + delta, 0)>>
        bb_bottom == <<BoxPoint(0 - delta, boxsize), BoxPoint(boxsize + delta, boxsize)>>
        bb_left == <<BoxPoint(0, 0 - delta), BoxPoint(0, boxsize + delta)>>
        bb_right == <<BoxPoint(boxsize, 0 - delta), BoxPoint(boxsize, boxsize + delta)>>
    IN  add_line(bb_bottom, add_line(bb_left, add_line(bb_right, add_line(bb_top, dcel))))

\* the last loop of add_bounding_box taking the outside vertices out of the
\* list
RemoveOutside_drops(boxsize, dcel, vert) ==
    [dcel EXCEPT !.vertices =
        SelectSeq(@, LAMBDA v : ~outside_bb(v.coordinates, boxsize))]

\* the last loop of add_bounding_box, from vertex vert on
RECURSIVE RemoveOutside(_, _, _)
RemoveOutside(boxsize, dcel, vert) ==
    IF vert > Len(dcel.vertices) THEN dcel
    ELSE IF outside_bb(dcel.vertices[vert].coordinates, boxsize)
    THEN RemoveOutside(boxsize, remove_vertex(dcel, vert), vert + 1)
    ELSE RemoveOutside(boxsize, dcel, vert + 1)

add_bounding_box(boxsize, b, dcel) ==
    RemoveOutside(boxsize, AddBoxLines(boxsize, extend_edges(b, dcel)), 1)

(***************************************************************************)
(* The caller: Algo::new on a site list, then process_next_event until it  *)
(* returns false                                                           *)
(***************************************************************************)
Init ==
    /\ event_queue = EventQueueNew
    /\ beachline = EmptyBeachline
    /\ output = EmptyDCEL
    /\ interim_dcel = EmptyDCEL
    /\ pc = "new"
    /\ ret = [op |-> "new", val |-> None]
    /\ hist = HistNew

\* Algo::new, one turn of its loop: the next point of the list is pushed
NewPushSite ==
    /\ pc = "new"
    /\ event_queue.next_event_id < MaxSites
    /\ \E point \in Grid :
         event_queue' = push(event_queue, SiteEvent(point)).q
    /\ UNCHANGED <<beachline, output, interim_dcel, pc, ret, hist>>

\* Algo::new returns
NewReturn ==
    /\ pc = "new"
    /\ pc' = "sweep"
    /\ ret' = [op |-> "Algo::new", val |-> None]
    /\ UNCHANGED <<event_queue, beachline, output, interim_dcel, hist>>

ProcessNextEvent ==
    /\ pc \in {"sweep", "done"}
    /\ \E r \in process_next_event(
                  [event_queue |-> event_queue, beachline |-> beachline,
                   output |-> output, panicked |-> FALSE]) :
         /\ event_queue' = r.a.event_queue
         /\ beachline' = r.a.beachline
         /\ output' = r.a.output
         /\ pc' = IF r.a.panicked THEN "panic" ELSE IF r.ret THEN "sweep" ELSE "done"
         /\ ret' = [op |-> "process_next_event", val |-> r.ret]
    /\ UNCHANGED <<interim_dcel, hist>>

\* voronoi_calc after the loop: the clone of the output, and extend_edges,
\* the first step of add_bounding_box
ExtendEdges ==
    /\ pc = "done"
    /\ interim_dcel' = extend_edges(beachline, output)
    /\ pc' = "extended"
    /\ ret' = [op |-> "extend_edges", val |-> None]
    /\ UNCHANGED <<event_queue, beachline, output, hist>>

\* add_bounding_box, the four calls of add_line (and set_prev, which writes
\* only the prev pointers, which are not kept here)
AddBoundingLines ==
    /\ pc = "extended"
    /\ interim_dcel' = AddBoxLines(BoxSize, interim_dcel)
    /\ pc' = "lined"
    /\ ret' = [op |-> "add_line", val |-> None]
    /\ UNCHANGED <<event_queue, beachline, output, hist>>

\* add_bounding_box, the loop that removes the vertices outside the box
RemoveOutsideVertices ==
    /\ pc = "lined"
    /\ interim_dcel' = RemoveOutside(BoxSize, interim_dcel, 1)
    /\ pc' = "boxed"
    /\ ret' = [op |-> "add_bounding_box", val |-> None]
    /\ UNCHANGED <<event_queue, beachline, output, hist>>

Next ==
    \/ NewPushSite
    \/ NewReturn
    \/ ProcessNextEvent
    \/ ExtendEdges
    \/ AddBoundingLines
    \/ RemoveOutsideVertices

Spec == Init /\ [][Next]_vars

\* A call of process_next_event made in the loop (pc = "sweep") changes the
\* state: it pops an entry or moves the caller past the loop.
CallPossible == pc = "sweep"
\* weak fairness of ProcessNextEvent, []<>~ENABLED <<A>>_vars \/ []<><<A>>_vars,
\* with the enabling condition written out
CallsComplete == []<>(~CallPossible) \/ []<><<ProcessNextEvent>>_vars
\* the loop of voronoi_calc under a scheduler that lets Algo::new return and
\* every call of process_next_event complete
LiveSpec == Spec /\ WF_vars(NewReturn) /\ CallsComplete

(***************************************************************************)
(* make_circle_event on its own: an Algo in the middle of a sweep is given *)
(* an arbitrary node and an arbitrary triple of sites                      *)
(***************************************************************************)
CircleSites == <<P(1, 2), P(0, 0), P(2, 0)>>
\* the triple of tests::simple_circle_center and tests::simple_circle_bottom
SimpleCircle == <<P(-1, 0), P(0, 1), P(1, 0)>>
\* the triples make_circle_event is called with
Triples == (Grid \X Grid \X Grid) \cup {SimpleCircle}

\* the loop of Algo::new from the i-th point on
RECURSIVE PushSites(_, _, _)
PushSites(q, points, i) ==
    IF i > Len(points) THEN q
    ELSE PushSites(push(q, SiteEvent(points[i])).q, points, i + 1)
Algo_new(points) == [AlgoNew EXCEPT !.event_queue = PushSites(@, points, 1)]

\* the states of the Algo after k calls of process_next_event that returned
\* true
RECURSIVE Sweep(_, _)
Sweep(a, k) ==
    IF k = 0 THEN {a}
    ELSE UNION {Sweep(r.a, k - 1) : r \in {x \in process_next_event(a) : x.ret}}

InitC ==
    /\ \E k \in 2 .. 3 : \E a \in Sweep(Algo_new(CircleSites), k) :
         /\ event_queue = a.event_queue
         /\ beachline = a.beachline
         /\ output = a.output
    /\ interim_dcel = EmptyDCEL
    /\ pc = "circle"
    /\ ret = [op |-> "new", val |-> None]
    /\ hist = HistNew

MakeCircleEvent ==
    /\ pc = "circle"
    /\ \E arc \in 1 .. Len(beachline.graph), triple \in Triples :
         LET a == make_circle_event(
                    [event_queue |-> event_queue, beachline |-> beachline,
                     output |-> output, panicked |-> FALSE], arc, triple)
         IN  /\ event_queue' = a.event_queue
             /\ beachline' = a.beachline
             /\ ret' = [op |-> "make_circle_event",
                        val |-> [arc |-> arc, triple |-> triple,
                                 circle_center |-> circle_center(triple),
                                 circle_bottom |-> circle_bottom(triple)]]
    /\ pc' = "circled"
    /\ UNCHANGED <<output, interim_dcel, hist>>

NextC == MakeCircleEvent

SpecC == InitC /\ [][NextC]_vars

(***************************************************************************)
(* voronoi_calc called twice on the same list of sites.  hist holds what   *)
(* the caller knows: the list, the number of the run, the calls made in it,*)
(* what the first run went through and the diagram it ended with.          *)
(***************************************************************************)
MaxRerunSites == 3     \* length of the site list given to both runs

SiteLists == UNION {[1 .. n -> Grid] : n \in 0 .. MaxRerunSites}

\* (variant of NewVoronoiState) the new Algo takes over the cancelled ids
\* of the one it replaces
NewVoronoiState_keeps_removed_ids(old, points) ==
    [Algo_new(points) EXCEPT !.event_queue.removed_event_ids =
                                old.event_queue.removed_event_ids]

\* voronoi_state = Algo::new(&input_verts), old the value it replaces
NewVoronoiState(old, points) == Algo_new(points)

InitR ==
    /\ event_queue = EventQueueNew
    /\ beachline = EmptyBeachline
    /\ output = EmptyDCEL
    /\ interim_dcel = EmptyDCEL
    /\ pc = "new"
    /\ ret = [op |-> "new", val |-> None]
    /\ \E points \in SiteLists :
         hist = [points |-> points, run |-> 1, calls |-> 0, same |-> TRUE,
                 trace |-> <<>>, first |-> EmptyDCEL]

RerunNew ==
    /\ pc = "new"
    /\ LET a == NewVoronoiState(
                    [event_queue |-> event_queue, beachline |-> beachline,
                     output |-> output, panicked |-> FALSE], hist.points)
       IN  /\ event_queue' = a.event_queue
           /\ beachline' = a.beachline
           /\ output' = a.output
    /\ pc' = "sweep"
    /\ ret' = [op |-> "Algo::new", val |-> None]
    /\ UNCHANGED <<interim_dcel, hist>>

\* One call of the loop.  BinaryHeap breaks a tie the same way whenever it
\* has gone through the same operations: a call of the second run made
\* from the states the first run went through has the outcome it had there.
RerunProcessNextEvent ==
    /\ pc = "sweep"
    /\ LET a == [event_queue |-> event_queue, beachline |-> beachline,
                 output |-> output, panicked |-> FALSE]
           k == hist.calls + 1
           follows == /\ hist.run = 2
                      /\ hist.same
                      /\ k <= Len(hist.trace)
                      /\ hist.trace[k].before = a
       IN  \E r \in {x \in process_next_event(a) :
                       follows => x = hist.trace[k].outcome} :
             /\ event_queue' = r.a.event_queue
             /\ beachline' = r.a.beachline
             /\ output' = r.a.output
             /\ pc' = IF r.a.panicked THEN "panic" ELSE IF r.ret THEN "sweep" ELSE "done"
             /\ ret' = [op |-> "process_next_event", val |-> r.ret]
             /\ hist' = [hist EXCEPT
                           !.calls = k,
                           !.same = (hist.run = 1 \/ follows),
                           !.trace = IF hist.run = 1
                                     THEN Append(@, [before |-> a, outcome |-> r])
                                     ELSE @]
    /\ UNCHANGED interim_dcel

\* the clone of the output and add_bounding_box
RerunFinalize ==
    /\ pc = "done"
    /\ interim_dcel' = add_bounding_box(BoxSize, beachline, output)
    /\ pc' = "boxed"
    /\ ret' = [op |-> "add_bounding_box", val |-> None]
    /\ UNCHANGED <<event_queue, beachline, output, hist>>

\* the caller keeps the diagram and calls voronoi_calc again; voronoi_state
\* still holds the Algo of the first run
RerunAgain ==
    /\ pc = "boxed"
    /\ hist.run = 1
    /\ hist' = [hist EXCEPT !.run = 2, !.calls = 0, !.first = interim_dcel]
    /\ pc' = "new"
    /\ ret' = [op |-> "voronoi_calc", val |-> None]
    /\ UNCHANGED <<event_queue, beachline, output, interim_dcel>>

NextR ==
    \/ RerunNew
    \/ RerunProcessNextEvent
    \/ RerunFinalize
    \/ RerunAgain

SpecR == InitR /\ [][NextR]_vars

(***************************************************************************)
(* The sweep on a site list in which a point occurs more than once         *)
(***************************************************************************)
MaxDupSites == 4       \* length of a site list with duplicate coordinates

HasDuplicate(points) ==
    \E i, j \in 1 .. Len(points) : i < j /\ points[i] = points[j]
DupSiteLists ==
    {points \in UNION {[1 .. n -> Grid] : n \in 2 .. MaxDupSites} : HasDuplicate(points)}

InitD ==
    /\ event_queue = EventQueueNew
    /\ beachline = EmptyBeachline
    /\ output = EmptyDCEL
    /\ interim_dcel = EmptyDCEL
    /\ pc = "new"
    /\ ret = [op |-> "new", val |-> None]
    /\ \E points \in DupSiteLists :
         hist = [points |-> points, run |-> 1, calls |-> 0, same |-> TRUE,
                 trace |-> <<>>, first |-> EmptyDCEL]

NextD == RerunNew \/ RerunProcessNextEvent

SpecD == InitD /\ [][NextD]_vars

(***************************************************************************)
(* point.rs: impl Ord for Point, applied to points of the grid             *)
(***************************************************************************)
\* (variant of Point_cmp) points with equal y compare Equal
Point_cmp_y_only(self, other) ==
    IF self.y > other.y THEN "Greater"
    ELSE IF self.y = other.y THEN "Equal"
    ELSE "Less"

Point_cmp(self, other) ==
    IF self.y > other.y THEN "Greater"
    ELSE IF self.y = other.y
    THEN (IF self.x < other.x THEN "Greater"
          ELSE IF self.x = other.x THEN "Equal"
          ELSE "Less")
    ELSE "Less"

InitP ==
    /\ event_queue = EventQueueNew
    /\ beachline = EmptyBeachline
    /\ output = EmptyDCEL
    /\ interim_dcel = EmptyDCEL
    /\ pc = "point"
    /\ ret = [op |-> "new", val |-> None]
    /\ hist = HistNew

\* cmp called on each pair of three points
PointCmp ==
    /\ pc = "point"
    /\ \E a, b, c \in Grid :
         ret' = [op |-> "cmp",
                 val |-> [a |-> a, b |-> b, c |-> c,
                          ab |-> Point_cmp(a, b), ba |-> Point_cmp(b, a),
                          bc |-> Point_cmp(b, c), ac |-> Point_cmp(a, c)]]
    /\ pc' = "compared"
    /\ UNCHANGED <<event_queue, beachline, output, interim_dcel, hist>>

NextP == PointCmp

SpecP == InitP /\ [][NextP]_vars

(***************************************************************************)
(* geom.rs: segment_intersection, applied to pairs of segments             *)
(***************************************************************************)
\* Sub for Point and Point::cross
Point_sub(p, q) == P(p.x - q.x, p.y - q.y)
cross(p, q) == p.x * q.y - p.y * q.x

\* (variant of segment_intersection) the ends of the segments do not count
segment_intersection_open(seg1, seg2) ==
    LET a == seg1[1]
        c == seg2[1]
        r == Point_sub(seg1[2], a)
        s == Point_sub(seg2[2], c)
        denom == cross(r, s)
        t == Rat(cross(Point_sub(c, a), s), denom)
        u == Rat(cross(Point_sub(c, a), r), denom)
    IN  IF denom = 0 THEN None
        ELSE IF \/ RatCmp(t, RatInt(0)) <= 0 \/ RatCmp(t, RatInt(1)) >= 0
                \/ RatCmp(u, RatInt(0)) <= 0 \/ RatCmp(u, RatInt(1)) >= 0
        THEN None
        ELSE Some([x |-> RatAdd(RatInt(a.x), RatMul(RatInt(r.x), t)),
                   y |-> RatAdd(RatInt(a.y), RatMul(RatInt(r.y), t))])

segment_intersection(seg1, seg2) ==
    LET a == seg1[1]
        c == seg2[1]
        r == Point_sub(seg1[2], a)
        s == Point_sub(seg2[2], c)
        denom == cross(r, s)
        numer_a == cross(Point_sub(c, a), s)
        numer_c == cross(Point_sub(c, a), r)
        t == Rat(numer_a, denom)
        u == Rat(numer_c, denom)
    IN  IF denom = 0 THEN None
        ELSE IF \/ RatCmp(t, RatInt(0)) < 0 \/ RatCmp(t, RatInt(1)) > 0
                \/ RatCmp(u, RatInt(0)) < 0 \/ RatCmp(u, RatInt(1)) > 0
        THEN None
        ELSE Some([x |-> RatAdd(RatInt(a.x), RatMul(RatInt(r.x), t)),
                   y |-> RatAdd(RatInt(a.y), RatMul(RatInt(r.y), t))])

\* the segments of the tests and all segments between points with
\* coordinates -1, 0 and 1
SegPoints == {P(x, y) : x \in -1 .. 1, y \in -1 .. 1}
Segments == (SegPoints \X SegPoints) \cup {<<P(-1, 10), P(1, 10)>>}

InitS ==
    /\ event_queue = EventQueueNew
    /\ beachline = EmptyBeachline
    /\ output = EmptyDCEL
    /\ interim_dcel = EmptyDCEL
    /\ pc = "segment"
    /\ ret = [op |-> "new", val |-> None]
    /\ hist = HistNew

SegmentIntersection ==
    /\ pc = "segment"
    /\ \E seg1, seg2 \in Segments :
         ret' = [op |-> "segment_intersection",
                 val |-> [seg1 |-> seg1, seg2 |-> seg2,
                          ret |-> segment_intersection(seg1, seg2)]]
    /\ pc' = "intersected"
    /\ UNCHANGED <<event_queue, beachline, output, interim_dcel, hist>>

NextS == SegmentIntersection

SpecS == InitS /\ [][NextS]_vars

(***************************************************************************)
(* breakpoints_converge on its own, called on a triple of sites and on the *)
(* same triple read backwards                                              *)
(***************************************************************************)
InitB ==
    /\ event_queue = EventQueueNew
    /\ beachline = EmptyBeachline
    /\ output = EmptyDCEL
    /\ interim_dcel = EmptyDCEL
    /\ pc = "triple"
    /\ ret = [op |-> "new", val |-> None]
    /\ hist = HistNew

BreakpointsConverge ==
    /\ pc = "triple"
    /\ \E triple \in Triples :
         ret' = [op |-> "breakpoints_converge",
                 val |-> [triple |-> triple,
                          ret |-> breakpoints_converge(triple),
                          rev |-> breakpoints_converge(
                                      <<triple[3], triple[2], triple[1]>>)]]
    /\ pc' = "converged"
    /\ UNCHANGED <<event_queue, beachline, output, interim_dcel, hist>>

NextB == BreakpointsConverge

SpecB == InitB /\ [][NextB]_vars

(***************************************************************************)
(* make_polygons and make_line_segments on their own, each called on a     *)
(* small DCEL.  A face is [outer_component, alive].                        *)
(***************************************************************************)
MaxHalfEdges == 3      \* half-edges of the DCEL given to make_polygons
MaxFaces == 3          \* faces of the DCEL given to make_polygons

Face(outer_component, alive) == [outer_component |-> outer_component, alive |-> alive]

\* DCEL::get_origin: the coordinates of the origin of a half-edge
get_origin(dcel, edge) == dcel.vertices[dcel.halfedges[edge].origin].coordinates

\* the loop of make_polygons for one face, from current_edge on; fuel
\* bounds the turns of the loop, and None stands for a loop that never
\* comes back to start_edge
RECURSIVE WalkFace(_, _, _, _, _)
WalkFace(dcel, start_edge, current_edge, this_poly, fuel) ==
    LET poly1 == Append(this_poly, get_origin(dcel, current_edge))
        next_edge == dcel.halfedges[current_edge].next
    IN  IF next_edge = start_edge THEN Some(poly1)
        ELSE IF fuel = 0 THEN None
        ELSE WalkFace(dcel, start_edge, next_edge, poly1, fuel - 1)

\* the loops of the alive faces from face i on, in the order of dcel.faces
RECURSIVE PolysFrom(_, _)
PolysFrom(dcel, i) ==
    IF i > Len(dcel.faces) THEN <<>>
    ELSE IF ~dcel.faces[i].alive THEN PolysFrom(dcel, i + 1)
    ELSE <<WalkFace(dcel, dcel.faces[i].outer_component,
                    dcel.faces[i].outer_component, <<>>, Len(dcel.halfedges))>>
         \o PolysFrom(dcel, i + 1)

\* x put into the sorted sequence behind every entry that is not longer
InsertByLen(sorted, x) ==
    LET k == Cardinality({i \in 1 .. Len(sorted) : Len(sorted[i]) <= Len(x)})
    IN  SubSeq(sorted, 1, k) \o <<x>> \o SubSeq(sorted, k + 1, Len(sorted))
\* result.sort_by(|a, b| a.len().cmp(&b.len())): a stable sort by length
RECURSIVE sort_by_len(_)
sort_by_len(result) ==
    IF result = <<>> THEN <<>>
    ELSE InsertByLen(sort_by_len(SubSeq(result, 1, Len(result) - 1)),
                     result[Len(result)])

\* (variant of Vec_pop) the first entry is taken off
Vec_pop_front(result) ==
    IF result = <<>> THEN <<>> ELSE SubSeq(result, 2, Len(result))
\* result.pop(): the last entry is taken off, an empty Vec stays empty
Vec_pop(result) ==
    IF result = <<>> THEN <<>> ELSE SubSeq(result, 1, Len(result) - 1)

\* make_polygons: Some(result), or None when a loop never ends
make_polygons(dcel) ==
    LET polys == PolysFrom(dcel, 1)
    IN  IF \E i \in 1 .. Len(polys) : polys[i] = None THEN None
        ELSE Some(Vec_pop(sort_by_len([i \in 1 .. Len(polys) |-> polys[i].v])))

\* the DCELs make_polygons is called with: every half-edge has a next and
\* an origin, vertex h lies at (h - 1, 0)
PolygonDCELs ==
    {[vertices |-> [h \in 1 .. MaxHalfEdges |-> Vertex(P(h - 1, 0), h, TRUE)],
      halfedges |-> [h \in 1 .. MaxHalfEdges |-> HalfEdge(h, NIL, nxt[h], TRUE)],
      faces |-> faces]
       : nxt \in [1 .. MaxHalfEdges -> 1 .. MaxHalfEdges],
         faces \in UNION {[1 .. k -> {Face(o, al) : o \in 1 .. MaxHalfEdges,
                                                    al \in BOOLEAN}]
                             : k \in 0 .. MaxFaces}}

InitG ==
    /\ event_queue = EventQueueNew
    /\ beachline = EmptyBeachline
    /\ output = EmptyDCEL
    /\ interim_dcel = EmptyDCEL
    /\ pc = "drawing"
    /\ ret = [op |-> "new", val |-> None]
    /\ hist = HistNew

MakePolygons ==
    /\ pc = "drawing"
    /\ \E dcel \in PolygonDCELs :
         ret' = [op |-> "make_polygons",
                 val |-> [dcel |-> dcel, ret |-> make_polygons(dcel)]]
    /\ pc' = "polygons made"
    /\ UNCHANGED <<event_queue, beachline, output, interim_dcel, hist>>

\* (variant of Emits) the alive flag is not looked at
Emits_dead_too(dcel, halfedge) ==
    /\ halfedge.origin # NIL
    /\ halfedge.next # NIL
    /\ dcel.halfedges[halfedge.next].origin # NIL

\* the two tests of make_line_segments on a half-edge
Emits(dcel, halfedge) ==
    /\ halfedge.origin # NIL /\ halfedge.next # NIL /\ halfedge.alive
    /\ dcel.halfedges[halfedge.next].origin # NIL

\* the loop of make_line_segments from half-edge i on
RECURSIVE SegmentsFrom(_, _)
SegmentsFrom(dcel, i) ==
    IF i > Len(dcel.halfedges) THEN <<>>
    ELSE IF Emits(dcel, dcel.halfedges[i])
    THEN <<<<dcel.vertices[dcel.halfedges[i].origin].coordinates,
             get_origin(dcel, dcel.halfedges[i].next)>>>>
         \o SegmentsFrom(dcel, i + 1)
    ELSE SegmentsFrom(dcel, i + 1)

make_line_segments(dcel) == SegmentsFrom(dcel, 1)

\* the DCELs make_line_segments is called with: two vertices, and
\* half-edges with any origin, next and alive flag, set or not
SegmentDCELs ==
    {[vertices |-> <<Vertex(P(0, 0), 1, TRUE), Vertex(P(1, 0), 2, TRUE)>>,
      halfedges |-> [h \in 1 .. MaxHalfEdges |->
                        HalfEdge(origin[h], NIL, nxt[h], alive[h])],
      faces |-> <<>>]
       : origin \in [1 .. MaxHalfEdges -> {NIL, 1, 2}],
         nxt \in [1 .. MaxHalfEdges -> {NIL} \cup 1 .. MaxHalfEdges],
         alive \in [1 .. MaxHalfEdges -> BOOLEAN]}

MakeLineSegments ==
    /\ pc = "drawing"
    /\ \E dcel \in SegmentDCELs :
         ret' = [op |-> "make_line_segments",
                 val |-> [dcel |-> dcel, ret |-> make_line_segments(dcel)]]
    /\ pc' = "segments made"
    /\ UNCHANGED <<event_queue, beachline, output, interim_dcel, hist>>

NextG == MakePolygons \/ MakeLineSegments

SpecG == InitG /\ [][NextG]_vars

(***************************************************************************)
(* The sweep with the two handlers taken one call at a time.  ret holds    *)
(* the locals of the handler that is running; hist holds the site list,    *)
(* the ids cancelled so far by each handler, the Algo the handler as a     *)
(* whole leaves behind, and the number of site events and of circle events *)
(* dispatched so far.                                                      *)
(***************************************************************************)
MaxStepSites == 4      \* length of the site list of the stepped sweep

\* BinaryHeap hands out equal entries in any order here, so the order of
\* the list does not matter: one list per multiset of points
Rank(pt) == pt.y * (MaxCoord + 1) + pt.x
StepSiteLists ==
    {points \in UNION {[1 .. n -> Grid] : n \in 0 .. MaxStepSites} :
        \A i \in 1 .. Len(points) - 1 : Rank(points[i]) <= Rank(points[i + 1])}

\* (variant of CancelAround) only the event of the vanishing arc is cancelled
CancelAround_only_leaf(a, leaf, left_neighbor, right_neighbor) ==
    remove_circle_event(a, leaf)

\* the three calls of remove_circle_event in handle_circle_event
CancelAround(a, leaf, left_neighbor, right_neighbor) ==
    remove_circle_event(
        remove_circle_event(remove_circle_event(a, leaf), left_neighbor),
        right_neighbor)

\* the pending event of a node, None for a breakpoint
PendingEvent(b, n) ==
    IF b.graph[n].item.kind = "Arc" THEN b.graph[n].item.site_event ELSE None
\* the ids of the pending events of a set of nodes
PendingIds(b, nodes) ==
    {PendingEvent(b, n).v : n \in {m \in nodes : PendingEvent(b, m) # None}}

Self == [event_queue |-> event_queue, beachline |-> beachline,
         output |-> output, panicked |-> FALSE]

InitH ==
    /\ event_queue = EventQueueNew
    /\ beachline = EmptyBeachline
    /\ output = EmptyDCEL
    /\ interim_dcel = EmptyDCEL
    /\ pc = "new"
    /\ ret = [op |-> "new", val |-> None]
    /\ \E points \in StepSiteLists :
         hist = [points |-> points, site_cancelled |-> {}, circle_cancelled |-> {},
                 expected |-> AlgoNew, sites |-> 0, circles |-> 0]

StepNew ==
    /\ pc = "new"
    /\ LET a == Algo_new(hist.points)
       IN  /\ event_queue' = a.event_queue
           /\ beachline' = a.beachline
           /\ output' = a.output
           /\ hist' = [hist EXCEPT !.expected = a]
    /\ pc' = "sweep"
    /\ ret' = [op |-> "Algo::new", val |-> None]
    /\ UNCHANGED interim_dcel

\* process_next_event up to the match on the popped event
StepPop ==
    /\ pc = "sweep"
    /\ \E r \in pop(event_queue) :
         LET a1 == [Self EXCEPT !.event_queue = r.q]
         IN  /\ event_queue' = r.q
             /\ pc' = IF r.ret = None THEN "done"
                      ELSE IF r.ret.kind = "Site" THEN "site" ELSE "circle"
             /\ ret' = IF r.ret = None
                       THEN [op |-> "process_next_event", val |-> FALSE]
                       ELSE [op |-> "pop", val |-> r.ret]
             /\ hist' = [hist EXCEPT
                           !.expected =
                              IF r.ret = None THEN a1
                              ELSE IF r.ret.kind = "Site" THEN handle_site_event(a1, r.ret.pt)
                              ELSE handle_circle_event(a1, r.ret),
                           !.sites = IF r.ret # None /\ r.ret.kind = "Site"
                                     THEN @ + 1 ELSE @,
                           !.circles = IF r.ret # None /\ r.ret.kind = "Circle"
                                       THEN @ + 1 ELSE @]
    /\ UNCHANGED <<beachline, output, interim_dcel>>

\* handle_site_event on an empty beachline
StepInsertPoint ==
    /\ pc = "site"
    /\ is_empty(beachline)
    /\ beachline' = insert_point(beachline, ret.val.pt)
    /\ pc' = "sweep"
    /\ ret' = [op |-> "process_next_event", val |-> TRUE]
    /\ UNCHANGED <<event_queue, output, interim_dcel, hist>>

\* handle_site_event: get_arc_above and remove_circle_event
StepCancelAbove ==
    /\ pc = "site"
    /\ ~is_empty(beachline)
    /\ LET arc_above == get_arc_above(beachline, ret.val.pt)
           a == remove_circle_event(Self, arc_above)
       IN  /\ event_queue' = a.event_queue
           /\ beachline' = a.beachline
           /\ ret' = [op |-> "remove_circle_event",
                      val |-> [pt |-> ret.val.pt, arc_above |-> arc_above,
                               was_pending |-> PendingEvent(beachline, arc_above)]]
           /\ hist' = [hist EXCEPT !.site_cancelled =
                         @ \cup PendingIds(beachline, {arc_above})]
    /\ pc' = "split"
    /\ UNCHANGED <<output, interim_dcel>>

\* handle_site_event: split_arc
StepSplitArc ==
    /\ pc = "split"
    /\ LET sp == split_arc(Self, ret.val.arc_above, ret.val.pt)
       IN  /\ beachline' = sp.a.beachline
           /\ output' = sp.a.output
           /\ pc' = IF sp.a.panicked THEN "panic" ELSE "triples"
           /\ ret' = [op |-> "split_arc",
                      val |-> [pt |-> ret.val.pt, arc_above |-> ret.val.arc_above,
                               new_node |-> sp.ret]]
    /\ UNCHANGED <<event_queue, interim_dcel, hist>>

\* handle_site_event: the checks of the leftward and the rightward triple
StepCheckTriples ==
    /\ pc = "triples"
    /\ LET a == CheckRightward(CheckLeftward(Self, ret.val.new_node), ret.val.new_node)
       IN  /\ event_queue' = a.event_queue
           /\ beachline' = a.beachline
           /\ pc' = IF a.panicked THEN "panic" ELSE "sweep"
    /\ ret' = [op |-> "process_next_event", val |-> TRUE]
    /\ UNCHANGED <<output, interim_dcel, hist>>

\* handle_circle_event: the two neighbours and delete_leaf
StepDeleteLeaf ==
    /\ pc = "circle"
    /\ LET leaf == ret.val.vanishing_arc
           left_neighbor == get_left_arc(beachline, leaf)
           right_neighbor == get_right_arc(beachline, leaf)
       IN  IF \/ leaf \notin 1 .. Len(beachline.graph)
              \/ left_neighbor = NIL \/ right_neighbor = NIL
              \/ delete_leaf_panics(beachline, leaf)
           THEN /\ pc' = "panic"
                /\ UNCHANGED <<beachline, ret>>
           ELSE LET dl == delete_leaf(beachline, leaf)
                IN  /\ beachline' = dl.b
                    /\ pc' = "cancel"
                    /\ ret' = [op |-> "delete_leaf",
                               val |-> [data |-> ret.val, left_neighbor |-> left_neighbor,
                                        right_neighbor |-> right_neighbor,
                                        dl |-> [dl EXCEPT !.b = EmptyBeachline]]]
    /\ UNCHANGED <<event_queue, output, interim_dcel, hist>>

\* handle_circle_event: the three calls of remove_circle_event
StepCancelAround ==
    /\ pc = "cancel"
    /\ LET nodes == {ret.val.data.vanishing_arc, ret.val.left_neighbor,
                     ret.val.right_neighbor}
           a == CancelAround(Self, ret.val.data.vanishing_arc,
                             ret.val.left_neighbor, ret.val.right_neighbor)
       IN  /\ event_queue' = a.event_queue
           /\ beachline' = a.beachline
           /\ hist' = [hist EXCEPT !.circle_cancelled =
                         @ \cup PendingIds(beachline, nodes)]
    /\ pc' = "link"
    /\ UNCHANGED <<output, interim_dcel, ret>>

\* handle_circle_event: the vertex, the pointers and the two checks
StepLink ==
    /\ pc = "link"
    /\ LET a == AfterRemove(Self, ret.val.data, ret.val.dl,
                            ret.val.left_neighbor, ret.val.right_neighbor)
       IN  /\ event_queue' = a.event_queue
           /\ beachline' = a.beachline
           /\ output' = a.output
           /\ pc' = IF a.panicked THEN "panic" ELSE "sweep"
    /\ ret' = [op |-> "process_next_event", val |-> TRUE]
    /\ UNCHANGED <<interim_dcel, hist>>

NextH ==
    \/ StepNew
    \/ StepPop
    \/ StepInsertPoint
    \/ StepCancelAbove
    \/ StepSplitArc
    \/ StepCheckTriples
    \/ StepDeleteLeaf
    \/ StepCancelAround
    \/ StepLink

SpecH == InitH /\ [][NextH]_vars

\* when a handler has returned, the Algo is the one the handler leaves
\* behind when taken as a whole
StepsAgree == pc \in {"sweep", "done"} => Self = hist.expected

(***************************************************************************)
(* Claims                                                                  *)
(***************************************************************************)
Heap == BagToSet(event_queue.events)
IsCancelled(e) == e.kind = "Circle" /\ e.id \in event_queue.removed_event_ids
Pushes == hist.pushes
PushIdx == 1 .. Len(Pushes)

\* C1: once remove(id) has been called, no later pop returns an event that
\* carries that id, whatever is pushed, popped or pushed again in between.
C1_CancelledIdNeverPopped ==
    (ret.op = "pop" /\ ret.val.kind = "Circle") => ret.val.id \notin hist.removed_log

\* C1 witness: a circle event was pushed, cancelled and dropped by pop, and a
\* pop has just returned a clone of it that was pushed afterwards.
C1_Witness ==
    /\ ret.op = "pop"
    /\ ret.val.kind = "Circle"
    /\ \E i \in PushIdx : \E s \in Pushes[i].stored :
         /\ s.kind = "Circle"
         /\ s.id \in hist.removed_log
         /\ s \notin Heap
         /\ s # ret.val
         /\ [s EXCEPT !.id = ret.val.id] = ret.val

\* C2: the event pop returns has a sweep value no smaller than that of any
\* non-cancelled event left in the queue, and pop returns None only when no
\* non-cancelled event is left.
C2_PopReturnsGreatest ==
    ret.op = "pop" =>
        IF ret.val = None
        THEN \A e \in Heap : IsCancelled(e)
        ELSE \A e \in Heap : ~IsCancelled(e) => SurdCmp(get_y(ret.val), get_y(e)) >= 0

\* C2 witness: pop returned a circle event while a site event and another
\* circle event with smaller sweep values are still queued, after a removal.
C2_Witness ==
    /\ ret.op = "pop"
    /\ ret.val.kind = "Circle"
    /\ hist.removed_log # {}
    /\ \E e, f \in Heap :
         /\ e.kind = "Site" /\ f.kind = "Circle" /\ ~IsCancelled(f)
         /\ SurdCmp(get_y(ret.val), get_y(e)) > 0
         /\ SurdCmp(get_y(ret.val), get_y(f)) > 0

\* C3: the ids push returns are strictly increasing, the id stored in a
\* circle event is the id returned (not the caller's), and no two circle
\* events pushed to the queue ever carry the same id.
C3_FreshIncreasingIds ==
    /\ \A i \in PushIdx : \A s \in Pushes[i].stored :
         s.kind = "Circle" => s.id = Pushes[i].id
    /\ \A i, j \in PushIdx : i < j =>
         /\ Pushes[i].id < Pushes[j].id
         /\ \A s \in Pushes[i].stored, t \in Pushes[j].stored :
              (s.kind = "Circle" /\ t.kind = "Circle") => s.id # t.id

\* C3 witness: the same circle event was pushed twice, with a site event
\* pushed in between, and the two stored copies differ in their ids.
C3_Witness ==
    \E i, j, k \in PushIdx :
        /\ i < k /\ k < j
        /\ \E s \in Pushes[i].stored, t \in Pushes[j].stored :
             s.kind = "Circle" /\ t.kind = "Circle" /\ t = [s EXCEPT !.id = t.id]
        /\ \E u \in Pushes[k].stored : u.kind = "Site"

\* C4: remove changes only the cancelled-id set (the heap and next_event_id
\* stay as they are), and an entry leaves the heap only in a pop.
C4_RemoveTouchesOnlyCancelledSet ==
    [][/\ ret'.op = "remove" =>
            /\ event_queue'.events = event_queue.events
            /\ event_queue'.next_event_id = event_queue.next_event_id
       /\ BagCardinality(event_queue'.events) < BagCardinality(event_queue.events) =>
            ret'.op = "pop"]_vars

\* C4 witness: remove has just been called for the id of a circle event that
\* is still in the heap.
C4_Witness ==
    /\ ret.op = "remove"
    /\ \E e \in Heap : IsCancelled(e)

\* C5: pop never drops a site event: every site event pushed is either still
\* queued or has been returned by pop, exactly once, whatever ids are
\* cancelled.
C5_SiteEventsNeverDiscarded ==
    \A pt \in QSites :
        Cardinality({i \in PushIdx : SiteEvent(pt) \in Pushes[i].stored})
            = CopiesIn(SiteEvent(pt), event_queue.events)
              + CopiesIn(SiteEvent(pt), hist.returned)

\* C5 witness: pop has just returned a site event although the id that push
\* returned for it had been passed to remove.
C5_Witness ==
    /\ ret.op = "pop"
    /\ ret.val.kind = "Site"
    /\ \E i \in PushIdx :
         /\ ret.val \in Pushes[i].stored
         /\ Pushes[i].id \in hist.removed_log
         /\ Pushes[i].id \in event_queue.removed_event_ids


\* what a call of process_next_event would do in the current state
CallNow ==
    process_next_event([event_queue |-> event_queue, beachline |-> beachline,
                        output |-> output, panicked |-> FALSE])
Exhausted ==
    \A r \in CallNow :
        /\ r.ret = FALSE
        /\ r.a.event_queue = event_queue
        /\ r.a.beachline = beachline
        /\ r.a.output = output
\* some outcome of a call changes the queue, the beachline or the DCEL, or
\* ends the loop
CallChangesState ==
    \E r \in CallNow :
        \/ ~r.ret
        \/ r.a.event_queue # event_queue
        \/ r.a.beachline # beachline
        \/ r.a.output # output
AfterLoop == {"done", "extended", "lined", "boxed"}

\* C6: for every site list the loop of calls of process_next_event reaches a
\* call that returns false, and once one has returned false every further
\* call returns false and leaves the queue, the beachline and the DCEL as
\* they are.
C6_SweepTerminates ==
    /\ <>(pc = "done" /\ ret.val = FALSE)
    /\ [](pc \in AfterLoop => Exhausted)
    /\ [](CallPossible => CallChangesState)
C6_Witness ==
    /\ pc = "done"
    /\ ret = [op |-> "process_next_event", val |-> FALSE]
    /\ Len(output.vertices) >= 2
    /\ event_queue.next_event_id > MaxSites
    /\ Exhausted

\* the nodes under node, left to right
RECURSIVE InOrder(_, _)
InOrder(b, node) ==
    IF node = NIL THEN <<>>
    ELSE InOrder(b, b.graph[node].left) \o <<node>> \o InOrder(b, b.graph[node].right)
Leaves == InOrder(beachline, beachline.root)

\* C7: in every state of the sweep every Breakpoint reachable from the root
\* stands between two arcs in the left-to-right order, its left site is the
\* site of the arc before it and its right site the site of the arc after it.
C7_BreakpointsMatchNeighbours ==
    \A i \in 1 .. Len(Leaves) :
        IsBreakpoint(beachline, Leaves[i]) =>
            /\ 1 < i /\ i < Len(Leaves)
            /\ IsArc(beachline, Leaves[i - 1])
            /\ IsArc(beachline, Leaves[i + 1])
            /\ beachline.graph[Leaves[i]].item.left = beachline.graph[Leaves[i - 1]].item.site
            /\ beachline.graph[Leaves[i]].item.right = beachline.graph[Leaves[i + 1]].item.site
\* a circle event has deleted a leaf, a later site event has split an arc,
\* and breakpoints are left
C7_Witness ==
    /\ pc = "sweep"
    /\ Len(output.vertices) >= 1
    /\ Len(beachline.graph) >= 16
    /\ \E i \in 1 .. Len(Leaves) : IsBreakpoint(beachline, Leaves[i])
    /\ Len(Leaves) < Len(beachline.graph) - 1

TwinsPaired(dcel) ==
    /\ Len(dcel.halfedges) % 2 = 0
    /\ \A h \in 1 .. Len(dcel.halfedges) :
         LET t == dcel.halfedges[h].twin
         IN  /\ t \in 1 .. Len(dcel.halfedges)
             /\ t # h
             /\ dcel.halfedges[t].twin = h

\* C8: in every reachable state, in the output of the sweep and in the copy
\* the finalizer works on, every half-edge has a twin, the twin of its twin
\* is the half-edge itself, no half-edge is its own twin, and the number of
\* half-edges is even.
C8_TwinsAreInvolution == TwinsPaired(output) /\ TwinsPaired(interim_dcel)
C8_Witness ==
    /\ pc = "boxed"
    /\ Len(output.vertices) >= 1
    /\ Len(output.halfedges) >= 6
    /\ Len(interim_dcel.halfedges) = Len(output.halfedges) + 8

\* every entry of old is still at its index in new
KeepsEntries(old, new) ==
    /\ Len(new.vertices) >= Len(old.vertices)
    /\ Len(new.halfedges) >= Len(old.halfedges)
    /\ \A i \in 1 .. Len(old.vertices) :
         new.vertices[i].coordinates = old.vertices[i].coordinates
    /\ \A i \in 1 .. Len(old.halfedges) :
         new.halfedges[i].twin = old.halfedges[i].twin
\* new is old with some alive flags cleared
OnlyClearsAlive(old, new) ==
    /\ Len(new.vertices) = Len(old.vertices)
    /\ Len(new.halfedges) = Len(old.halfedges)
    /\ \A i \in 1 .. Len(old.vertices) :
         /\ [new.vertices[i] EXCEPT !.alive = TRUE] = [old.vertices[i] EXCEPT !.alive = TRUE]
         /\ new.vertices[i].alive => old.vertices[i].alive
    /\ \A i \in 1 .. Len(old.halfedges) :
         /\ [new.halfedges[i] EXCEPT !.alive = TRUE] = [old.halfedges[i] EXCEPT !.alive = TRUE]
         /\ new.halfedges[i].alive => old.halfedges[i].alive

\* C9: no step of the sweep or of the finalization makes the vertex list or
\* the half-edge list shorter or moves an entry to another index, and the
\* clipping step changes nothing but alive flags, which it clears.
C9_ListsOnlyGrow ==
    [][/\ KeepsEntries(output, output')
       /\ (pc = "done" /\ pc' = "extended" => KeepsEntries(output, interim_dcel'))
       /\ (pc \in {"extended", "lined"} => KeepsEntries(interim_dcel, interim_dcel'))
       /\ (pc = "lined" => OnlyClearsAlive(interim_dcel, interim_dcel'))]_vars
C9_Witness ==
    /\ pc = "boxed"
    /\ Len(output.vertices) >= 1
    /\ Len(interim_dcel.vertices) > Len(output.vertices) + 8
    /\ \E i \in 1 .. Len(output.vertices) : ~interim_dcel.vertices[i].alive
    /\ \E i \in 1 .. Len(interim_dcel.vertices) : interim_dcel.vertices[i].alive

\* the three points lie on one line (or two of them coincide)
Collinear(triple) ==
    (triple[2].x - triple[1].x) * (triple[3].y - triple[1].y)
        = (triple[3].x - triple[1].x) * (triple[2].y - triple[1].y)

\* C10: for a collinear triple circle_center and circle_bottom return None
\* and make_circle_event changes neither the queue nor the beachline (no
\* event pushed, the pending event of the arc as it was); and circle_center
\* returns None for a triple of integer points exactly when it is collinear.
C10_CollinearNoCircleEvent ==
    [][pc' = "circled" =>
         LET v == ret'.val
         IN  /\ Collinear(v.triple) =>
                   /\ v.circle_center = None
                   /\ v.circle_bottom = None
                   /\ event_queue' = event_queue
                   /\ beachline' = beachline
             /\ (v.circle_center = None) <=> Collinear(v.triple)]_vars
C10_Witness ==
    /\ pc = "circled"
    /\ Collinear(ret.val.triple)
    /\ Cardinality({ret.val.triple[1], ret.val.triple[2], ret.val.triple[3]}) = 3
    /\ ret.val.circle_center = None
    /\ IsArc(beachline, ret.val.arc)
    /\ beachline.graph[ret.val.arc].item.site_event # None
    /\ event_queue.events # EmptyBag

\* squared distance from the point c with fractional coordinates to the site p
Dist2(c, p) ==
    LET dx == RatSub(RatInt(p.x), c.x)
        dy == RatSub(RatInt(p.y), c.y)
    IN  RatAdd(RatMul(dx, dx), RatMul(dy, dy))

\* C11: for a non-collinear triple circle_center returns a point with
\* defined coordinates (no division by zero on either branch for x) that
\* is at the same distance from the three sites, and circle_bottom returns
\* center.y minus that distance; for (-1,0), (0,1), (1,0) the centre is
\* (0,0) and the bottom is -1.
C11_CenterEquidistant ==
    pc = "circled" /\ ~Collinear(ret.val.triple) =>
        LET t == ret.val.triple
            c == ret.val.circle_center
        IN  /\ c # None
            /\ RatDefined(c.v.x) /\ RatDefined(c.v.y)
            /\ Dist2(c.v, t[1]) = Dist2(c.v, t[2])
            /\ Dist2(c.v, t[2]) = Dist2(c.v, t[3])
            /\ ret.val.circle_bottom = Some(SurdOf(c.v.y, Dist2(c.v, t[1])))
            /\ t = SimpleCircle =>
                  /\ c = Some([x |-> RatInt(0), y |-> RatInt(0)])
                  /\ ret.val.circle_bottom = Some(SurdInt(-1))
C11_Witness ==
    /\ pc = "circled"
    /\ ret.val.triple = SimpleCircle
    /\ ret.val.circle_center = Some([x |-> RatInt(0), y |-> RatInt(0)])
    /\ ret.val.circle_bottom = Some(SurdInt(-1))

C15_DuplicatesNoPanic ==
    HasDuplicate(hist.points) =>
        /\ pc # "panic"
        /\ pc = "done" => BagToSet(event_queue.events) = {}
C15_Witness ==
    /\ pc = "done"
    /\ HasDuplicate(hist.points)
    /\ Cardinality({hist.points[i] : i \in 1 .. Len(hist.points)}) = 3
    /\ Len(output.vertices) >= 1
    /\ BagToSet(event_queue.events) = {}

\* the ordering cmp gives when its arguments are swapped
Reverse(o) == IF o = "Greater" THEN "Less" ELSE IF o = "Less" THEN "Greater" ELSE "Equal"

\* C16: Point's cmp returns Equal exactly when both coordinates are equal,
\* cmp(b, a) is the reverse of cmp(a, b), cmp is transitive, the point with
\* the larger y is Greater, and among equal y the x coordinates decide
\* (the point with the smaller x is Greater).
C16_PointCmpTotalOrder ==
    pc = "compared" =>
        LET v == ret.val
        IN  /\ (v.ab = "Equal") <=> (v.a.x = v.b.x /\ v.a.y = v.b.y)
            /\ v.ba = Reverse(v.ab)
            /\ v.ab = v.bc => v.ac = v.ab
            /\ v.ab = "Equal" => v.ac = v.bc
            /\ v.bc = "Equal" => v.ac = v.ab
            /\ v.a.y > v.b.y => v.ab = "Greater"
            /\ v.a.y = v.b.y /\ v.a.x # v.b.x =>
                  /\ v.ab # "Equal"
                  /\ (v.ab = "Greater") <=> (v.a.x < v.b.x)
C16_Witness ==
    /\ pc = "compared"
    /\ ret.val.a.y = ret.val.b.y /\ ret.val.a.x < ret.val.b.x
    /\ ret.val.c.y < ret.val.b.y
    /\ ret.val.ab = "Greater" /\ ret.val.bc = "Greater" /\ ret.val.ac = "Greater"
    /\ ret.val.ba = "Less"

\* the side of the line through q1 and q2 that p lies on: 1, -1, or 0 on it
Side(p, q1, q2) == Sgn(cross(Point_sub(q2, q1), Point_sub(p, q1)))
Parallel(seg1, seg2) ==
    cross(Point_sub(seg1[2], seg1[1]), Point_sub(seg2[2], seg2[1])) = 0
\* neither segment lies strictly on one side of the line of the other
Straddle(seg1, seg2) ==
    /\ Side(seg1[1], seg2[1], seg2[2]) * Side(seg1[2], seg2[1], seg2[2]) <= 0
    /\ Side(seg2[1], seg1[1], seg1[2]) * Side(seg2[2], seg1[1], seg1[2]) <= 0
\* the point pt, with fractional coordinates, lies on the line of seg
OnLine(pt, seg) ==
    RatSub(RatMul(RatInt(seg[2].x - seg[1].x), RatSub(pt.y, RatInt(seg[1].y))),
           RatMul(RatInt(seg[2].y - seg[1].y), RatSub(pt.x, RatInt(seg[1].x))))
        = RatInt(0)

\* C17: segment_intersection returns None for parallel segments and for
\* segments whose lines cross outside one of them; otherwise (both
\* parameters in [0,1], ends included) it returns the point the two lines
\* share, so a segment that touches the other with an end intersects it.
\* The three tests of geom.rs come out as written there.
C17_SegmentIntersection ==
    pc = "intersected" =>
        LET v == ret.val
        IN  /\ Parallel(v.seg1, v.seg2) => v.ret = None
            /\ ~Parallel(v.seg1, v.seg2) =>
                  /\ (v.ret = None) <=> ~Straddle(v.seg1, v.seg2)
                  /\ v.ret # None => OnLine(v.ret.v, v.seg1) /\ OnLine(v.ret.v, v.seg2)
            /\ v.seg1 = <<P(-1, 0), P(1, 0)>> /\ v.seg2 = <<P(0, -1), P(0, 1)>> =>
                  v.ret = Some([x |-> RatInt(0), y |-> RatInt(0)])
            /\ v.seg1 = <<P(-1, 0), P(1, 0)>> /\ v.seg2 = <<P(0, 0), P(0, 1)>> =>
                  v.ret = Some([x |-> RatInt(0), y |-> RatInt(0)])
            /\ v.seg1 = <<P(-1, 10), P(1, 10)>> /\ v.seg2 = <<P(0, -1), P(0, 1)>> =>
                  v.ret = None
C17_Witness ==
    /\ pc = "intersected"
    /\ ret.val.seg1 = <<P(-1, 0), P(1, 0)>>
    /\ ret.val.seg2 = <<P(0, 0), P(0, 1)>>
    /\ ret.val.ret = Some([x |-> RatInt(0), y |-> RatInt(0)])

\* the circle events the next call of process_next_event may dispatch
Dispatchable ==
    {r.ret : r \in {x \in pop(event_queue) : x.ret # None /\ x.ret.kind = "Circle"}}

\* C18: a circle event the driver is about to dispatch names an arc that
\* is a leaf reachable from the root, holds this event as its pending
\* event, has an arc on its left and an arc on its right, and the event is
\* the one make_circle_event builds for the sites of these three arcs; and
\* as long as an arc keeps its pending event its triple stays the same, so
\* the triple at dispatch is the triple the event was scheduled for.
C18_DispatchedArcIsLive ==
    /\ [](pc = "sweep" =>
            \A e \in Dispatchable :
                LET n == e.vanishing_arc
                    triple == get_centered_triple(beachline, n)
                IN  /\ n \in 1 .. Len(beachline.graph)
                    /\ IsArc(beachline, n)
                    /\ \E i \in 1 .. Len(Leaves) : Leaves[i] = n
                    /\ get_left_arc(beachline, n) # NIL
                    /\ get_right_arc(beachline, n) # NIL
                    /\ beachline.graph[n].item.site_event = Some(e.id)
                    /\ triple # None
                    /\ circle_center(triple.v) # None
                    /\ e = Stamp(NewCircleEvent(n, triple.v), e.id))
    /\ [][\A n \in 1 .. Len(beachline.graph) :
             /\ IsArc(beachline, n)
             /\ beachline.graph[n].item.site_event # None
             /\ beachline'.graph[n].item.site_event = beachline.graph[n].item.site_event
             => get_centered_triple(beachline', n) = get_centered_triple(beachline, n)]_vars
\* an event is about to be dispatched in a beachline that has lost an arc
\* to an earlier circle event and has had an arc split since
C18_Witness ==
    /\ pc = "sweep"
    /\ Dispatchable # {}
    /\ Len(output.vertices) >= 1
    /\ Len(Leaves) < Len(beachline.graph) - 2
    /\ event_queue.removed_event_ids # {}

\* the vanishing arc of the circle event being handled and its two
\* neighbours, before delete_leaf and after it
AroundBefore ==
    {ret.val.vanishing_arc, get_left_arc(beachline, ret.val.vanishing_arc),
     get_right_arc(beachline, ret.val.vanishing_arc)}
AroundAfter ==
    {ret.val.data.vanishing_arc, ret.val.left_neighbor, ret.val.right_neighbor}

\* C19 as stated: when delete_leaf is called, the pending events of the
\* two neighbours of the vanishing arc have been cancelled already.
C19_CancelledBeforeDelete ==
    [][pc = "circle" /\ pc' = "cancel" =>
         PendingIds(beachline, AroundBefore \ {ret.val.vanishing_arc})
             \subseteq event_queue.removed_event_ids]_vars

\* C19, amended: delete_leaf is called with the pending events of the
\* vanishing arc and its neighbours still in place and cancels nothing; the
\* three calls of remove_circle_event that follow it cancel them all,
\* before the DCEL is changed and before a new circle event is pushed; and
\* no event cancelled there is dispatched later.
C19_CancelledAfterDelete ==
    [][/\ pc = "circle" /\ pc' = "cancel" =>
            /\ event_queue' = event_queue
            /\ \A n \in AroundBefore :
                  PendingEvent(beachline', n) = PendingEvent(beachline, n)
       /\ pc = "cancel" /\ pc' = "link" =>
            /\ \A n \in AroundAfter : PendingEvent(beachline', n) = None
            /\ PendingIds(beachline, AroundAfter) \subseteq event_queue'.removed_event_ids
            /\ event_queue'.events = event_queue.events
            /\ output' = output
       /\ pc = "sweep" /\ pc' = "circle" =>
            ret'.val.id \notin hist.circle_cancelled]_vars
\* the three calls have cancelled the event of a neighbour besides the one
\* of the vanishing arc, and the sweep has gone on to its end
C19_Witness ==
    /\ pc = "done"
    /\ Cardinality(hist.circle_cancelled) >= 3
    /\ Len(output.vertices) >= 2

\* the nodes split_arc appends to a graph of length len
NewNodes(len) == len + 1 .. len + 5

\* C20: in handle_site_event on a non-empty beachline the pending event of
\* the arc above the site is cancelled while the arc is still unsplit;
\* split_arc then takes the arc out of the tree and puts in two
\* breakpoints and three arcs, none of which has a pending event; and an
\* event cancelled this way is never dispatched.
C20_FalseAlarmCancelled ==
    [][/\ pc = "site" /\ pc' = "split" =>
            LET n == ret'.val.arc_above
            IN  /\ IsArc(beachline, n)
                /\ \E i \in 1 .. Len(Leaves) : Leaves[i] = n
                /\ PendingEvent(beachline', n) = None
                /\ PendingIds(beachline, {n}) \subseteq event_queue'.removed_event_ids
                /\ Len(beachline'.graph) = Len(beachline.graph)
                /\ beachline'.root = beachline.root
       /\ pc = "split" /\ pc' = "triples" =>
            LET new == NewNodes(Len(beachline.graph))
                after == InOrder(beachline', beachline'.root)
            IN  /\ Len(beachline'.graph) = Len(beachline.graph) + 5
                /\ Cardinality({n \in new : IsArc(beachline', n)}) = 3
                /\ \A n \in new : PendingEvent(beachline', n) = None
                /\ \A n \in new : \E i \in 1 .. Len(after) : after[i] = n
                /\ \A i \in 1 .. Len(after) : after[i] # ret.val.arc_above
                /\ event_queue' = event_queue
       /\ pc = "sweep" /\ pc' = "circle" =>
            ret'.val.id \notin hist.site_cancelled]_vars
\* a site event has cancelled a pending circle event, and the sweep has
\* gone on to its end and has dispatched another circle event
C20_Witness ==
    /\ pc = "done"
    /\ hist.site_cancelled # {}
    /\ hist.circle_cancelled # {}
    /\ Len(output.vertices) >= 1

\* the site events still in the queue, counted with their copies
SitesQueued ==
    BagCardinality([e \in {x \in BagToSet(event_queue.events) : x.kind = "Site"}
                      |-> event_queue.events[e]])
\* the beachline insert_point leaves behind: one node, the root, an arc
LoneRoot(pt) ==
    [graph |-> <<BeachNode(NIL, NIL, NIL, ArcItem(pt, None))>>, edges |-> {}, root |-> 1]

\* C21: a site event that has been popped finds the beachline empty exactly
\* when it is the first site event of the run; handle_site_event then calls
\* insert_point, which leaves a single root arc with no pending event, and
\* changes neither the DCEL nor the queue; on a non-empty beachline
\* handle_site_event goes on to split an arc and insert_point is not called;
\* and a beachline that is not empty never becomes empty.
C21_FirstSiteSeedsRoot ==
    /\ [](pc = "site" =>
            (is_empty(beachline) <=> SitesQueued = Len(hist.points) - 1))
    /\ [][/\ pc = "site" /\ pc' = "sweep" =>
               /\ is_empty(beachline)
               /\ beachline' = LoneRoot(ret.val.pt)
               /\ output' = output
               /\ event_queue' = event_queue
          /\ pc = "site" /\ ~is_empty(beachline) =>
               /\ pc' = "split"
               /\ Len(beachline'.graph) = Len(beachline.graph)
          /\ ~is_empty(beachline) => ~is_empty(beachline')]_vars
\* the first site has seeded the root, later sites have split arcs, and the
\* sweep has come to its end
C21_Witness ==
    /\ pc = "done"
    /\ Len(hist.points) >= 3
    /\ Len(beachline.graph) >= 11
    /\ beachline.graph[1] = BeachNode(NIL, NIL, NIL, ArcItem(beachline.graph[1].item.site, None))

\* the place of node x in the sequence seq
IndexOf(seq, x) == CHOOSE i \in 1 .. Len(seq) : seq[i] = x
\* seq with the entry at place i replaced by the entries of mid
Spliced(seq, i, mid) == SubSeq(seq, 1, i - 1) \o mid \o SubSeq(seq, i + 1, Len(seq))

\* C22: split_arc(arc, new) on a leaf with site A puts, where the leaf was
\* in the left-to-right order, Arc(A), Breakpoint(A,new), Arc(new),
\* Breakpoint(new,A), Arc(A) and leaves the rest of the order as it was; it
\* returns the node of Arc(new); the child pointer of the old parent that
\* named the leaf (or the root, when the leaf was the root) names the top
\* new breakpoint, and no other field of an existing node changes.
C22_SplitArcReplacesLeaf ==
    [][pc = "split" /\ pc' = "triples" =>
         LET arc == ret.val.arc_above
             new == ret.val.pt
             len == Len(beachline.graph)
             A == beachline.graph[arc].item.site
             parent == beachline.graph[arc].parent
             g == beachline'.graph
         IN  /\ IsArc(beachline, arc)
             /\ InOrder(beachline', beachline'.root) =
                  Spliced(Leaves, IndexOf(Leaves, arc),
                          <<len + 3, len + 1, len + 4, len + 2, len + 5>>)
             /\ Len(g) = len + 5
             /\ g[len + 3].item = ArcItem(A, None)
             /\ g[len + 4].item = ArcItem(new, None)
             /\ g[len + 5].item = ArcItem(A, None)
             /\ g[len + 1].item.kind = "Breakpoint"
             /\ g[len + 1].item.left = A /\ g[len + 1].item.right = new
             /\ g[len + 2].item.kind = "Breakpoint"
             /\ g[len + 2].item.left = new /\ g[len + 2].item.right = A
             /\ ret'.val.new_node = len + 4
             /\ g[len + 1].parent = parent
             /\ IF parent = NIL
                THEN beachline'.root = len + 1 /\ beachline.root = arc
                ELSE /\ beachline'.root = beachline.root
                     /\ \/ /\ beachline.graph[parent].left = arc
                           /\ g[parent] = [beachline.graph[parent] EXCEPT !.left = len + 1]
                        \/ /\ beachline.graph[parent].right = arc
                           /\ g[parent] = [beachline.graph[parent] EXCEPT !.right = len + 1]
             /\ \A n \in 1 .. len : n # parent => g[n] = beachline.graph[n]]_vars
\* split_arc has split an arc that hung under a breakpoint, in a beachline
\* from which a circle event had removed an arc before
C22_Witness ==
    /\ pc = "triples"
    /\ ret.op = "split_arc"
    /\ beachline.graph[ret.val.arc_above].parent # NIL
    /\ Len(output.vertices) >= 1
    /\ Len(beachline.graph) >= 16

\* the half-edges a step has appended to the DCEL
NewHalfEdges == Len(output.halfedges) + 1 .. Len(output'.halfedges)

\* C23 as stated: a call of split_arc adds two twin pairs, four half-edges
\* with unset origin, one pair for each of the two new breakpoints.
C23_TwoTwinPairs ==
    [][pc = "split" /\ pc' = "triples" =>
         LET len == Len(beachline.graph)
             e_AB == get_edge(beachline', len + 1)
             e_BA == get_edge(beachline', len + 2)
         IN  /\ Len(output'.halfedges) = Len(output.halfedges) + 4
             /\ \A h \in NewHalfEdges : output'.halfedges[h].origin = NIL
             /\ {e_AB, e_BA} \subseteq NewHalfEdges
             /\ output'.halfedges[e_AB].twin # e_BA]_vars

\* C23, amended: a call of split_arc calls add_twins once and so adds one
\* twin pair, two half-edges that are each other's twin, with unset origin
\* and unset next; Breakpoint(A,new) holds the first half-edge of the pair
\* and Breakpoint(new,A) the second; the half-edges and vertices that were
\* there stay as they are.
C23_OneTwinPair ==
    [][pc = "split" /\ pc' = "triples" =>
         LET len == Len(beachline.graph)
             old == Len(output.halfedges)
             e_AB == get_edge(beachline', len + 1)
             e_BA == get_edge(beachline', len + 2)
         IN  /\ Len(output'.halfedges) = old + 2
             /\ SubSeq(output'.halfedges, 1, old) = output.halfedges
             /\ output'.vertices = output.vertices
             /\ e_AB = old + 1
             /\ e_BA = old + 2
             /\ output'.halfedges[e_AB] = HalfEdge(NIL, e_BA, NIL, TRUE)
             /\ output'.halfedges[e_BA] = HalfEdge(NIL, e_AB, NIL, TRUE)]_vars
\* split_arc has been called three times and has left six half-edges
C23_Witness ==
    /\ pc = "triples"
    /\ ret.op = "split_arc"
    /\ Len(beachline.graph) = 16
    /\ Len(output.halfedges) = 6
    /\ get_edge(beachline, 12) = 5
    /\ get_edge(beachline, 13) = 6

\* seq without the entries that are in the set gone
Without(seq, gone) ==
    LET Stays(n) == n \notin gone
    IN  SelectSeq(seq, Stays)
\* the arcs among the nodes of seq, in the order of seq; b is the beachline
ArcsOf(b, seq) ==
    LET IsLeaf(n) == b.graph[n].item.kind = "Arc"
    IN  SelectSeq(seq, IsLeaf)

\* C24: delete_leaf(arc) on an arc with both neighbours takes the arc out of
\* the left-to-right sequence of arcs and the arc and its parent out of the
\* sequence of nodes, and leaves the order of the rest; the sibling of the
\* arc hangs where the parent hung under the grandparent and has the
\* grandparent as its parent; and the tuple returned is the node before the
\* arc, the node after it, its parent, and the one of the first two that is
\* not the parent, all taken before the removal.
C24_DeleteLeafSplicesSibling ==
    [][pc = "circle" /\ pc' = "cancel" =>
         LET leaf == ret.val.vanishing_arc
             i == IndexOf(Leaves, leaf)
             after == InOrder(beachline', beachline'.root)
             parent == beachline.graph[leaf].parent
             grandparent == beachline.graph[parent].parent
             sibling == IF beachline.graph[parent].left = leaf
                        THEN beachline.graph[parent].right
                        ELSE beachline.graph[parent].left
             dl == ret'.val.dl
         IN  /\ 2 < i /\ i < Len(Leaves) - 1
             /\ parent # NIL /\ grandparent # NIL /\ sibling \notin {NIL, leaf}
             /\ after = Without(Leaves, {leaf, parent})
             /\ ArcsOf(beachline', after) = Without(ArcsOf(beachline, Leaves), {leaf})
             /\ beachline'.graph[sibling].parent = grandparent
             /\ IF beachline.graph[grandparent].left = parent
                THEN /\ beachline'.graph[grandparent].left = sibling
                     /\ beachline'.graph[grandparent].right = beachline.graph[grandparent].right
                ELSE /\ beachline.graph[grandparent].right = parent
                     /\ beachline'.graph[grandparent].right = sibling
                     /\ beachline'.graph[grandparent].left = beachline.graph[grandparent].left
             /\ beachline'.root = beachline.root
             /\ dl.pred = Leaves[i - 1]
             /\ dl.succ = Leaves[i + 1]
             /\ dl.parent = parent
             /\ parent \in {dl.pred, dl.succ}
             /\ dl.other \in {dl.pred, dl.succ} \ {parent}]_vars
\* delete_leaf has removed an arc that was a left child and whose parent
\* was not a child of the root
C24_Witness ==
    /\ pc = "cancel"
    /\ ret.op = "delete_leaf"
    /\ ret.val.dl.parent = ret.val.dl.succ
    /\ beachline.graph[ret.val.dl.parent].parent # beachline.root
    /\ Len(output.vertices) >= 1

\* the nodes reachable from the root of b form a tree whose parent fields
\* mirror its child fields
WellFormed(b) ==
    LET nodes == InOrder(b, b.root)
    IN  /\ b.root # NIL => b.graph[b.root].parent = NIL
        /\ \A i, j \in 1 .. Len(nodes) : nodes[i] = nodes[j] => i = j
        /\ \A i \in 1 .. Len(nodes) :
             LET n == b.graph[nodes[i]]
             IN  IF n.item.kind = "Breakpoint"
                 THEN /\ n.left # NIL /\ n.right # NIL /\ n.left # n.right
                      /\ b.graph[n.left].parent = nodes[i]
                      /\ b.graph[n.right].parent = nodes[i]
                 ELSE n.left = NIL /\ n.right = NIL

\* C25: in every state, between the calls of the handlers and inside them,
\* the nodes reachable from the root form a binary tree: the root has no
\* parent, no node is reached twice, every Breakpoint has two children,
\* each with the breakpoint as its parent, and every Arc has no child.
C25_TreeBackReferences == WellFormed(beachline)
\* the tree after arcs have been split and an arc has been deleted
C25_Witness ==
    /\ pc = "sweep"
    /\ Len(output.vertices) >= 1
    /\ Len(beachline.graph) >= 16
    /\ Len(Leaves) >= 7
    /\ WellFormed(beachline)

\* the entry of seq at place i, NIL outside seq
At(seq, i) == IF i \in 1 .. Len(seq) THEN seq[i] ELSE NIL

\* C26: for every node reachable from the root, successor gives the next
\* node and predecessor the previous node of the in-order traversal, None
\* at the two ends; so the successor of the predecessor of a node, and the
\* predecessor of its successor, is the node itself whenever the inner
\* result exists.
C26_SuccessorIsNextInOrder ==
    \A i \in 1 .. Len(Leaves) :
        LET n == Leaves[i]
            s == successor(beachline, n)
            p == predecessor(beachline, n)
        IN  /\ s = At(Leaves, i + 1)
            /\ p = At(Leaves, i - 1)
            /\ p # NIL => successor(beachline, p) = n
            /\ s # NIL => predecessor(beachline, s) = n
\* an arc that is a right child has a successor, and an arc that is a left
\* child has a predecessor: both are found by climbing past the parent
C26_Witness ==
    /\ Len(output.vertices) >= 1
    /\ \E i, j \in 1 .. Len(Leaves) :
          LET n == Leaves[i]
              k == Leaves[j]
          IN  /\ IsArc(beachline, n)
              /\ beachline.graph[beachline.graph[n].parent].right = n
              /\ successor(beachline, n) \notin {NIL, beachline.graph[n].parent}
              /\ beachline.graph[successor(beachline, n)].parent # NIL
              /\ IsArc(beachline, k)
              /\ beachline.graph[beachline.graph[k].parent].left = k
              /\ predecessor(beachline, k) \notin {NIL, beachline.graph[k].parent}

\* C27: in every state the in-order traversal of a non-empty beachline has
\* an arc at every odd place and a breakpoint at every even place and ends
\* with an arc; for the arc at place i get_left_arc returns the arc at
\* place i - 2 and get_right_arc the arc at place i + 2, None when there is
\* no such place, and so never a Breakpoint.
C27_ArcsAndBreakpointsAlternate ==
    /\ Len(Leaves) > 0 => Len(Leaves) % 2 = 1
    /\ \A i \in 1 .. Len(Leaves) :
         /\ IsArc(beachline, Leaves[i]) <=> i % 2 = 1
         /\ IsBreakpoint(beachline, Leaves[i]) <=> i % 2 = 0
         /\ IsArc(beachline, Leaves[i]) =>
              LET l == get_left_arc(beachline, Leaves[i])
                  r == get_right_arc(beachline, Leaves[i])
              IN  /\ l = At(Leaves, i - 2)
                  /\ r = At(Leaves, i + 2)
                  /\ l # NIL => IsArc(beachline, l)
                  /\ r # NIL => IsArc(beachline, r)
                  /\ l = NIL <=> i = 1
                  /\ r = NIL <=> i = Len(Leaves)
\* a beachline of at least four arcs after a circle event has removed one
C27_Witness ==
    /\ pc = "sweep"
    /\ Len(output.vertices) >= 1
    /\ Len(Leaves) >= 7
    /\ get_left_arc(beachline, Leaves[1]) = NIL
    /\ get_right_arc(beachline, Leaves[3]) = Leaves[5]
    /\ IsBreakpoint(beachline, Leaves[4])

\* C28: handling a circle event appends one vertex, at the centre of the
\* event, and one twin pair (t1, t2); the vertex becomes the origin of the
\* half-edge of the removed breakpoint (parent), of the half-edge of the
\* surviving breakpoint (other) and of t1; next(twin(pred_edge)) is
\* succ_edge, next(twin(succ_edge)) is t1 and next(t2) is pred_edge; the
\* surviving breakpoint then holds t2; and no other origin, next or twin
\* of the DCEL changes.
C28_CircleEventWiresVertex ==
    [][pc = "link" =>
         LET dl == ret.val.dl
             old_v == Len(output.vertices)
             old_h == Len(output.halfedges)
             v == old_v + 1
             t1 == old_h + 1
             t2 == old_h + 2
             pred_edge == get_edge(beachline, dl.pred)
             succ_edge == get_edge(beachline, dl.succ)
             parent_edge == get_edge(beachline, dl.parent)
             other_edge == get_edge(beachline, dl.other)
             pred_edge_twin == output.halfedges[pred_edge].twin
             succ_edge_twin == output.halfedges[succ_edge].twin
             he == output'.halfedges
         IN  /\ pc' = "sweep"
             /\ output'.vertices =
                  Append(output.vertices, Vertex(ret.val.data.center, t1, TRUE))
             /\ Len(he) = old_h + 2
             /\ he[t1].twin = t2 /\ he[t2].twin = t1
             /\ he[parent_edge].origin = v
             /\ he[other_edge].origin = v
             /\ he[t1].origin = v
             /\ he[t2].origin = NIL
             /\ he[pred_edge_twin].next = succ_edge
             /\ he[succ_edge_twin].next = t1
             /\ he[t2].next = pred_edge
             /\ he[t1].next = NIL
             /\ get_edge(beachline', dl.other) = t2
             /\ {dl.parent, dl.other} = {dl.pred, dl.succ}
             /\ \A h \in 1 .. old_h :
                  /\ he[h].twin = output.halfedges[h].twin
                  /\ he[h].alive = output.halfedges[h].alive
                  /\ h \notin {parent_edge, other_edge} =>
                       he[h].origin = output.halfedges[h].origin
                  /\ h \notin {pred_edge_twin, succ_edge_twin} =>
                       he[h].next = output.halfedges[h].next
             /\ \A n \in 1 .. Len(beachline.graph) :
                  n # dl.other /\ IsBreakpoint(beachline, n) =>
                      get_edge(beachline', n) = get_edge(beachline, n)]_vars
\* two circle events have been handled: the second vertex, its twin pair,
\* and a surviving breakpoint that holds the second half-edge of that pair
C28_Witness ==
    /\ pc = "sweep"
    /\ Len(output.vertices) = 2
    /\ output.vertices[2].incident_edge = Len(output.halfedges) - 1
    /\ output.halfedges[Len(output.halfedges)].next # NIL
    /\ \E i \in 1 .. Len(Leaves) :
          /\ IsBreakpoint(beachline, Leaves[i])
          /\ get_edge(beachline, Leaves[i]) = Len(output.halfedges)

\* the circle event that is due for the arc m with the arcs l and r beside
\* it in the beachline b: a sequence of one entry [arc, triple] when the
\* three arcs exist, their sites pass breakpoints_converge and have a
\* circumcentre, and the empty sequence otherwise
DueFor(b, l, m, r) ==
    LET triple == <<b.graph[l].item.site, b.graph[m].item.site, b.graph[r].item.site>>
    IN  IF l = NIL \/ m = NIL \/ r = NIL THEN <<>>
        ELSE IF breakpoints_converge(triple) /\ circle_center(triple) # None
        THEN <<[arc |-> m, triple |-> triple]>>
        ELSE <<>>
\* the step pushes the events of due, in this order, and no other: each is
\* stored with a fresh id, which its arc then names as pending
PushesExactly(due) ==
    LET id0 == event_queue.next_event_id
        stored == {Stamp(NewCircleEvent(due[k].arc, due[k].triple), id0 + k - 1)
                      : k \in 1 .. Len(due)}
    IN  /\ event_queue'.events = event_queue.events (+) SetToBag(stored)
        /\ event_queue'.next_event_id = id0 + Len(due)
        /\ event_queue'.removed_event_ids = event_queue.removed_event_ids
        /\ \A k \in 1 .. Len(due) :
              beachline'.graph[due[k].arc].item.site_event = Some(id0 + k - 1)
        /\ \A n \in 1 .. Len(beachline.graph) :
              (\A k \in 1 .. Len(due) : due[k].arc # n) =>
                  PendingEvent(beachline', n) = PendingEvent(beachline, n)

\* C29: after split_arc, handle_site_event pushes a circle event for the
\* arc left of the new arc exactly when the arc left of that one exists and
\* the three sites (left-left, left, new) pass breakpoints_converge and have
\* a circumcentre, and likewise for the arc right of the new arc with (new,
\* right, right-right); after the DCEL is wired, handle_circle_event does
\* the same for the two surviving neighbours of the vanished arc with the
\* triples centred on them; and no other step of a handler pushes an event.
C29_CircleEventsPushedWhenDue ==
    [][/\ pc = "triples" =>
            LET i == IndexOf(Leaves, ret.val.new_node)
            IN  PushesExactly(
                    DueFor(beachline, At(Leaves, i - 4), At(Leaves, i - 2), Leaves[i])
                    \o DueFor(beachline, Leaves[i], At(Leaves, i + 2), At(Leaves, i + 4)))
       /\ pc = "link" =>
            LET i == IndexOf(Leaves, ret.val.left_neighbor)
                j == IndexOf(Leaves, ret.val.right_neighbor)
            IN  /\ j = i + 2
                /\ PushesExactly(
                     DueFor(beachline, At(Leaves, i - 2), Leaves[i], Leaves[j])
                     \o DueFor(beachline, Leaves[i], Leaves[j], At(Leaves, j + 2)))
       /\ pc \notin {"new", "triples", "link"} =>
            /\ event_queue'.events \sqsubseteq event_queue.events
            /\ event_queue'.next_event_id = event_queue.next_event_id]_vars
\* a circle event has just been handled, and one of the two arcs beside the
\* surviving breakpoint has been given a new circle event by it
C29_Witness ==
    /\ pc = "sweep"
    /\ Len(output.vertices) >= 1
    /\ output.halfedges[Len(output.halfedges) - 1].origin = Len(output.vertices)
    /\ \E i \in 2 .. Len(Leaves) - 1 :
          /\ IsBreakpoint(beachline, Leaves[i])
          /\ get_edge(beachline, Leaves[i]) = Len(output.halfedges)
          /\ \/ PendingEvent(beachline, Leaves[i - 1]) # None
             \/ PendingEvent(beachline, Leaves[i + 1]) # None

\* C30: breakpoints_converge(a, b, c) is true exactly when
\* (ay - by)(bx - cx) > (by - cy)(ax - bx), which is the sign of the cross
\* product of a - b and c - b; so it is false for every collinear triple
\* and for every triple with a = c, and for a triple that is not collinear
\* exactly one of (a, b, c) and (c, b, a) converges.
C30_ConvergeIsOrientation ==
    pc = "converged" =>
        LET v == ret.val
            a == v.triple[1]
            b == v.triple[2]
            c == v.triple[3]
        IN  /\ v.ret <=> (a.y - b.y) * (b.x - c.x) > (b.y - c.y) * (a.x - b.x)
            /\ v.ret <=> cross(Point_sub(a, b), Point_sub(c, b)) > 0
            /\ Collinear(v.triple) => ~v.ret /\ ~v.rev
            /\ a = c => ~v.ret
            /\ ~Collinear(v.triple) => (v.ret <=> ~v.rev)
\* a triple that is not collinear: it converges and its reverse does not
C30_Witness ==
    /\ pc = "converged"
    /\ ret.val.triple = <<P(0, 0), P(1, 2), P(2, 0)>>
    /\ ret.val.ret
    /\ ~ret.val.rev

\* the event the handler that is running was called with, None between
\* two calls
CurrentEvent ==
    IF pc \in {"site", "circle"} THEN ret.val
    ELSE IF pc \in {"split", "triples"} THEN SiteEvent(ret.val.pt)
    ELSE IF pc \in {"cancel", "link"} THEN ret.val.data
    ELSE None
\* no entry of the queue q has a sweep value above that of the event e
NoneAbove(q, e) == \A f \in BagToSet(q.events) : EventCmp(f, e) <= 0

\* C31: the event process_next_event dispatches has the greatest sweep
\* value of the queue; while it is handled, and when its handler returns,
\* no entry of the queue has a sweep value above its own, so every circle
\* event is scheduled at or below the event being handled and every event
\* dispatched later has a sweep value that is not greater.
C31_SweepNeverGoesBack ==
    /\ [](CurrentEvent # None => NoneAbove(event_queue, CurrentEvent))
    /\ [][CurrentEvent # None =>
            /\ NoneAbove(event_queue', CurrentEvent)
            /\ \A f \in BagToSet(event_queue'.events (-) event_queue.events) :
                  f.kind = "Circle" /\ EventCmp(f, CurrentEvent) <= 0]_vars
\* a circle event is dispatched after an earlier one has been handled, at
\* a sweep value below the lowest row of the grid
C31_Witness ==
    /\ pc = "circle"
    /\ Len(output.vertices) >= 1
    /\ ret.val.id > Len(hist.points) + 1
    /\ EventCmp(ret.val, SiteEvent(P(0, 0))) < 0

\* the breakpoints reachable from the root, left to right
BreakpointsOf(b, seq) ==
    LET IsInner(n) == b.graph[n].item.kind = "Breakpoint"
    IN  SelectSeq(seq, IsInner)

\* C32: extend_edges appends one vertex for each Breakpoint reachable in
\* the final beachline, in left-to-right order; the k-th new vertex is the
\* origin of the half-edge e of the k-th breakpoint and names e as its
\* incident edge, and next(twin(e)) = e; no other field of the DCEL
\* changes, so nothing changes when the beachline is empty or a single
\* arc; and the beachline and the output of the sweep stay as they are.
C32_ExtendEdgesClosesRays ==
    [][pc = "done" /\ pc' = "extended" =>
         LET bps == BreakpointsOf(beachline, Leaves)
             old_v == Len(output.vertices)
             he == interim_dcel'.halfedges
             Edge(k) == get_edge(beachline, bps[k])
             Edges == {Edge(k) : k \in 1 .. Len(bps)}
         IN  /\ beachline' = beachline
             /\ output' = output
             /\ Len(interim_dcel'.vertices) = old_v + Len(bps)
             /\ SubSeq(interim_dcel'.vertices, 1, old_v) = output.vertices
             /\ Len(he) = Len(output.halfedges)
             /\ \A k \in 1 .. Len(bps) :
                  /\ he[Edge(k)].origin = old_v + k
                  /\ he[he[Edge(k)].twin].next = Edge(k)
                  /\ interim_dcel'.vertices[old_v + k].incident_edge = Edge(k)
                  /\ interim_dcel'.vertices[old_v + k].alive
             /\ \A h \in 1 .. Len(he) :
                  /\ he[h].twin = output.halfedges[h].twin
                  /\ he[h].alive = output.halfedges[h].alive
                  /\ h \notin Edges => he[h].origin = output.halfedges[h].origin
                  /\ output.halfedges[h].twin \notin Edges =>
                       he[h].next = output.halfedges[h].next
             /\ Len(Leaves) <= 1 => interim_dcel' = output]_vars
\* extend_edges has run over a beachline with at least three breakpoints
\* after a sweep that made a vertex
C32_Witness ==
    /\ pc = "extended"
    /\ Len(output.vertices) >= 1
    /\ Len(BreakpointsOf(beachline, Leaves)) >= 3
    /\ Len(interim_dcel.vertices) = Len(output.vertices) + Len(BreakpointsOf(beachline, Leaves))

\* a coordinate that is a number below -0.1, above size + 0.1, or between
\* the two (ends included)
BelowBox(v) == ~CoordIsNaN(v) /\ CmpTenth(v, -1) < 0
AboveBox(v, size) == ~CoordIsNaN(v) /\ CmpTenth(v, 10 * size + 1) > 0
WithinBox(v, size) ==
    ~CoordIsNaN(v) /\ CmpTenth(v, -1) >= 0 /\ CmpTenth(v, 10 * size + 1) <= 0

\* C33: the last loop of add_bounding_box leaves every vertex with x or y
\* below -0.1 or above size + 0.1 marked not alive, and changes the alive
\* mark of no vertex whose coordinates both lie in [-0.1, size + 0.1]; it
\* moves no vertex and removes none from the list.
C33_OutsideVerticesDie ==
    [][pc = "lined" /\ pc' = "boxed" =>
         /\ Len(interim_dcel'.vertices) = Len(interim_dcel.vertices)
         /\ \A i \in 1 .. Len(interim_dcel.vertices) :
              LET v == interim_dcel.vertices[i]
                  w == interim_dcel'.vertices[i]
                  x == v.coordinates.x
                  y == v.coordinates.y
              IN  /\ w.coordinates = v.coordinates
                  /\ (BelowBox(x) \/ AboveBox(x, BoxSize) \/ BelowBox(y) \/ AboveBox(y, BoxSize))
                       => ~w.alive
                  /\ (WithinBox(x, BoxSize) /\ WithinBox(y, BoxSize))
                       => w.alive = v.alive]_vars
\* the box is in place: a vertex of the sweep inside it is alive, a far end
\* of a ray outside it is dead, and so is a corner of the box lines
C33_Witness ==
    /\ pc = "boxed"
    /\ Len(output.vertices) >= 1
    /\ interim_dcel.vertices[1].alive
    /\ WithinBox(interim_dcel.vertices[1].coordinates.x, BoxSize)
    /\ WithinBox(interim_dcel.vertices[1].coordinates.y, BoxSize)
    /\ Len(interim_dcel.vertices) > Len(output.vertices) + 8
    /\ ~interim_dcel.vertices[Len(output.vertices) + 1].alive
    /\ ~interim_dcel.vertices[Len(interim_dcel.vertices)].alive

\* the half-edges met from start by following next until start comes up
\* again, at most fuel + 1 of them
RECURSIVE Orbit(_, _, _, _)
Orbit(dcel, start, current, fuel) ==
    IF fuel = 0 \/ dcel.halfedges[current].next = start THEN <<current>>
    ELSE <<current>> \o Orbit(dcel, start, dcel.halfedges[current].next, fuel - 1)
\* the loop of face f as C34 describes it
LoopOf(dcel, f) ==
    LET edges == Orbit(dcel, dcel.faces[f].outer_component,
                       dcel.faces[f].outer_component, Len(dcel.halfedges))
    IN  [i \in 1 .. Len(edges) |->
            dcel.vertices[dcel.halfedges[edges[i]].origin].coordinates]
\* the alive faces, and whether the walk of each comes back to its start
AliveFaces(dcel) == {f \in 1 .. Len(dcel.faces) : dcel.faces[f].alive}
LoopsClose(dcel) ==
    \A f \in AliveFaces(dcel) :
        LET edges == Orbit(dcel, dcel.faces[f].outer_component,
                           dcel.faces[f].outer_component, Len(dcel.halfedges))
        IN  dcel.halfedges[edges[Len(edges)]].next = dcel.faces[f].outer_component
\* the entries of a sequence, counted with their copies
BagOf(seq) ==
    [x \in {seq[i] : i \in 1 .. Len(seq)} |->
        Cardinality({i \in 1 .. Len(seq) : seq[i] = x})]

\* C34: on a DCEL with k >= 1 alive faces whose loops close, make_polygons
\* returns k - 1 loops: the loops of the alive faces, each the origins met
\* by following next from outer_component until it comes up again, with
\* one of them left out that is no shorter than any loop returned; a dead
\* face contributes nothing, and with no alive face the result is empty.
C34_PolygonsDropLargestLoop ==
    pc = "polygons made" /\ LoopsClose(ret.val.dcel) =>
        LET dcel == ret.val.dcel
            k == Cardinality(AliveFaces(dcel))
        IN  /\ ret.val.ret # None
            /\ k = 0 => ret.val.ret.v = <<>>
            /\ k >= 1 =>
                 /\ Len(ret.val.ret.v) = k - 1
                 /\ \E out \in AliveFaces(dcel) :
                      /\ BagOf(ret.val.ret.v) (+) SetToBag({LoopOf(dcel, out)})
                           = BagOf([i \in 1 .. k |->
                                LoopOf(dcel, CHOOSE f \in AliveFaces(dcel) :
                                    Cardinality({g \in AliveFaces(dcel) : g < f}) = i - 1)])
                      /\ \A i \in 1 .. k - 1 :
                           Len(LoopOf(dcel, out)) >= Len(ret.val.ret.v[i])
\* three faces, one of them dead, with loops of one and of two vertices:
\* the loop of one vertex is returned and the longer one left out
C34_Witness ==
    /\ pc = "polygons made"
    /\ Len(ret.val.dcel.faces) = 3
    /\ ret.val.dcel.faces[1] = Face(1, TRUE)
    /\ ret.val.dcel.faces[2] = Face(3, FALSE)
    /\ ret.val.dcel.faces[3] = Face(3, TRUE)
    /\ ret.val.dcel.halfedges[1].next = 2
    /\ ret.val.dcel.halfedges[2].next = 1
    /\ ret.val.dcel.halfedges[3].next = 3
    /\ ret.val.ret = Some(<<<<P(2, 0)>>>>)

\* the half-edges C35 names: alive, with an origin, with a next, and the
\* next with an origin
Drawn(dcel) ==
    {h \in 1 .. Len(dcel.halfedges) :
        /\ dcel.halfedges[h].alive
        /\ dcel.halfedges[h].origin # NIL
        /\ dcel.halfedges[h].next # NIL
        /\ dcel.halfedges[dcel.halfedges[h].next].origin # NIL}

\* C35: make_line_segments returns, in the order of the half-edges, one
\* segment [origin(h), origin(next(h))] for each half-edge h that is alive,
\* has an origin and a next whose origin is set, and nothing for any other
\* half-edge.
C35_SegmentsOfDrawnHalfEdges ==
    pc = "segments made" =>
        LET dcel == ret.val.dcel
            segs == ret.val.ret
            Place(h) == Cardinality({g \in Drawn(dcel) : g <= h})
        IN  /\ Len(segs) = Cardinality(Drawn(dcel))
            /\ \A h \in Drawn(dcel) :
                 segs[Place(h)] =
                    <<dcel.vertices[dcel.halfedges[h].origin].coordinates,
                      dcel.vertices[dcel.halfedges[dcel.halfedges[h].next].origin].coordinates>>
\* one half-edge is drawn, one is dead, and one has a next without origin
C35_Witness ==
    /\ pc = "segments made"
    /\ ret.val.dcel.halfedges[1] = HalfEdge(1, NIL, 2, TRUE)
    /\ ret.val.dcel.halfedges[2] = HalfEdge(2, NIL, 3, FALSE)
    /\ ret.val.dcel.halfedges[3] = HalfEdge(NIL, NIL, 1, TRUE)
    /\ ret.val.ret = <<<<P(0, 0), P(1, 0)>>>>

\* the site list holds no point twice
DistinctSites == ~HasDuplicate(hist.points)

\* C36: in a run on distinct sites no unwrap and no explicit panic of the
\* beachline code fires: when a circle event is about to be handled its
\* arc is a node with an arc on either side, and delete_leaf finds the
\* predecessor, the successor, the parent, the grandparent and the sibling
\* and takes neither 'family strife' branch; when split_arc is about to be
\* called it does not take the 'tree is borked' branch; get_arc_above is
\* called on a beachline with a root only; and no handler panics.
C36_NoBeachlinePanic ==
    DistinctSites =>
        /\ pc # "panic"
        /\ pc = "circle" =>
             LET leaf == ret.val.vanishing_arc
                 parent == beachline.graph[leaf].parent
             IN  /\ leaf \in 1 .. Len(beachline.graph)
                 /\ get_left_arc(beachline, leaf) # NIL
                 /\ get_right_arc(beachline, leaf) # NIL
                 /\ predecessor(beachline, leaf) # NIL
                 /\ successor(beachline, leaf) # NIL
                 /\ parent # NIL
                 /\ beachline.graph[parent].parent # NIL
                 /\ leaf \in {beachline.graph[parent].left, beachline.graph[parent].right}
                 /\ parent \in {beachline.graph[beachline.graph[parent].parent].left,
                                beachline.graph[beachline.graph[parent].parent].right}
                 /\ ~delete_leaf_panics(beachline, leaf)
        /\ pc = "site" /\ ~is_empty(beachline) =>
             /\ beachline.root # NIL
             /\ IsArc(beachline, get_arc_above(beachline, ret.val.pt))
        /\ pc = "split" =>
             LET arc == ret.val.arc_above
                 parent == beachline.graph[arc].parent
             IN  /\ IsArc(beachline, arc)
                 /\ parent # NIL =>
                      arc \in {beachline.graph[parent].left, beachline.graph[parent].right}
                 /\ ~split_arc(Self, arc, ret.val.pt).a.panicked
\* a sweep of four distinct sites has handled two circle events and has
\* come to its end
C36_Witness ==
    /\ pc = "done"
    /\ DistinctSites
    /\ Len(hist.points) = 4
    /\ Len(output.vertices) >= 2

\* the circle events in the queue that are not cancelled and name node n
\* as their vanishing arc
LiveEventsOf(q, n) ==
    {e \in BagToSet(q.events) :
        e.kind = "Circle" /\ e.vanishing_arc = n /\ e.id \notin q.removed_event_ids}

\* C37: in every state, for every arc reachable from the root, the queue
\* holds at most one circle event that is not cancelled and names the arc,
\* and once, and the arc's site_event field holds the id of that event;
\* and the field of an arc that names such an event changes only in a step
\* that cancels the event.
C37_OnePendingEventPerArc ==
    /\ [](\A i \in 1 .. Len(Leaves) :
            IsArc(beachline, Leaves[i]) =>
               LET live == LiveEventsOf(event_queue, Leaves[i])
               IN  /\ Cardinality(live) <= 1
                   /\ \A e \in live :
                        /\ CopiesIn(e, event_queue.events) = 1
                        /\ PendingEvent(beachline, Leaves[i]) = Some(e.id))
    /\ [][\A i \in 1 .. Len(Leaves) :
            \A e \in LiveEventsOf(event_queue, Leaves[i]) :
               PendingEvent(beachline', Leaves[i]) # PendingEvent(beachline, Leaves[i])
                  => /\ PendingEvent(beachline', Leaves[i]) = None
                     /\ e.id \in event_queue'.removed_event_ids]_vars
\* two arcs of the beachline have a circle event each in the queue, and an
\* earlier event has been cancelled
C37_Witness ==
    /\ pc = "sweep"
    /\ Cardinality({n \in 1 .. Len(beachline.graph) :
                       /\ \E i \in 1 .. Len(Leaves) : Leaves[i] = n
                       /\ LiveEventsOf(event_queue, n) # {}}) >= 2
    /\ hist.site_cancelled \cup hist.circle_cancelled # {}

\* C38: between two calls of process_next_event, after S >= 1 site events
\* and C circle events have been handled, S - 1 - C + S arcs and one
\* breakpoint fewer are reachable from the root, the DCEL holds C vertices
\* and 2 (S - 1 + C) half-edges, and C is at most 2 S - 3 when S >= 2 (and
\* 0 when S = 1).
C38_CountsFollowEvents ==
    pc \in {"sweep", "done"} /\ hist.sites >= 1 =>
        LET S == hist.sites
            C == hist.circles
        IN  /\ Len(ArcsOf(beachline, Leaves)) = 2 * S - 1 - C
            /\ Len(BreakpointsOf(beachline, Leaves)) = 2 * S - 2 - C
            /\ Len(output.vertices) = C
            /\ Len(output.halfedges) = 2 * (S - 1 + C)
            /\ S >= 2 => C <= 2 * S - 3
            /\ S = 1 => C = 0
\* four site events and two circle events have been handled
C38_Witness ==
    /\ pc = "done"
    /\ hist.sites = 4
    /\ hist.circles = 2
    /\ Len(ArcsOf(beachline, Leaves)) = 5
    /\ Len(output.halfedges) = 10

\* C39: in every state of the sweep the half-edge of every Breakpoint
\* reachable from the root has no origin, and a half-edge e has an origin
\* exactly when next(twin(e)) is set; and no step of a handler changes an
\* origin that is set.
C39_OriginsSetOnce ==
    /\ [](LET he == output.halfedges
              bps == BreakpointsOf(beachline, Leaves)
          IN  /\ \A k \in 1 .. Len(bps) :
                    /\ get_edge(beachline, bps[k]) \in 1 .. Len(he)
                    /\ he[get_edge(beachline, bps[k])].origin = NIL
              /\ \A e \in 1 .. Len(he) :
                    he[e].origin # NIL <=> he[he[e].twin].next # NIL)
    /\ [][\A e \in 1 .. Len(output.halfedges) :
             output.halfedges[e].origin # NIL =>
                 /\ e <= Len(output'.halfedges)
                 /\ output'.halfedges[e].origin = output.halfedges[e].origin]_vars
\* two circle events have been handled and breakpoints are left: six
\* half-edges have an origin and the edges of the breakpoints have none
C39_Witness ==
    /\ pc = "sweep"
    /\ Len(output.vertices) = 2
    /\ Len(BreakpointsOf(beachline, Leaves)) >= 2
    /\ Cardinality({e \in 1 .. Len(output.halfedges) :
                      output.halfedges[e].origin # NIL}) = 6
    /\ \E e \in 1 .. Len(output.halfedges) : output.halfedges[e].origin = NIL

\* the half-edge reached from e by following next k times, NIL once an
\* unset reference is met
RECURSIVE FollowNext(_, _, _)
FollowNext(he, e, k) ==
    IF e = NIL \/ k = 0 THEN e ELSE FollowNext(he, he[e].next, k - 1)

\* C40: once the sweep has emptied the queue and extend_edges has run,
\* every half-edge the sweep made has an origin and a next, the next is
\* again a half-edge the sweep made, and following next from it any number
\* of times never meets an unset reference.
C40_SweepEdgesClosed ==
    pc = "extended" =>
        LET he == interim_dcel.halfedges
            Made == 1 .. Len(output.halfedges)
        IN  /\ Len(he) = Len(output.halfedges)
            /\ \A e \in Made :
                 /\ he[e].origin \in 1 .. Len(interim_dcel.vertices)
                 /\ he[e].next \in Made
                 /\ \A k \in 1 .. Len(he) : FollowNext(he, e, k) # NIL
\* extend_edges has run after a sweep that made a vertex and left
\* breakpoints: edges closed by the sweep and edges closed by extend_edges
C40_Witness ==
    /\ pc = "extended"
    /\ Len(output.vertices) >= 1
    /\ Len(output.halfedges) >= 6
    /\ \E e \in 1 .. Len(output.halfedges) : output.halfedges[e].origin = NIL
    /\ \A e \in 1 .. Len(output.halfedges) :
          /\ interim_dcel.halfedges[e].origin # NIL
          /\ interim_dcel.halfedges[e].next # NIL

=============================================================================
